---- MODULE Spec2Model ----
(***************************************************************************)
(* Declaration validation core of lib/Sema/TypeCheckDecl.cpp.              *)
(*                                                                         *)
(* The module holds several specifications over one set of variables:      *)
(*   SpecCirc      checkCircularity over a structural-parent graph         *)
(*   SpecReentrant the same, with visits that start while one is running  *)
(*   SpecEnum      checkEnumRawValues over one enumeration                 *)
(*   SpecValidate  TypeChecker::validateDecl over a small declaration tree *)
(*   SpecInherit   TypeChecker::checkInheritanceClause over one clause     *)
(*   SpecOverride  checkOverrides and recordOverride for one class member  *)
(* Each specification leaves the variables of the others at their idle     *)
(* values.                                                                 *)
(***************************************************************************)
EXTENDS Integers, Sequences, FiniteSets, TLC

(***************************************************************************)
(* Bounds.                                                                 *)
(***************************************************************************)
\* Number of declarations in a structural-parent graph.
NumNodes == 3
\* Number of cases of the enumeration whose raw values are checked.
MaxCases == 3
\* Number of entries of an inheritance clause.
MaxClause == 3
\* Number of declarations of the program whose declarations are validated.
NumDecls == 3
\* Number of validation requests made from outside the checker.
MaxRequests == 2
\* Number of superclass members that share the base name of the member.
NumBase == 2
\* Number of calls of checkOverrides from outside the declaration checker.
MaxResolves == 2

VARIABLES
    \* ---- circularity checking ----
    kind,           \* the T of checkCircularity<T>: "Class", "Enum", "Protocol"
    clause,         \* written inheritance clause of each declaration
    inherited,      \* structural edges currently stored on each declaration
    clauseChecked,  \* TypeDecl::checkedInheritanceClause()
    circularity,    \* Decl::getCircularityCheck()
    declInvalid,    \* Decl::isInvalid()
    declErrorType,  \* the declaration's type was overwritten with ErrorType
    path,           \* the SmallVector path shared by the recursive calls
    frames,         \* activation records of checkCircularity, innermost last
    started,        \* declarations whose visitXDecl circularity block has run
    visited,        \* declarations that were ever pushed on a path
    circDiags       \* diagnostics emitted by checkCircularity

circVars == <<kind, clause, inherited, clauseChecked, circularity, declInvalid,
              declErrorType, path, frames, started, visited, circDiags>>

VARIABLES
    \* ---- enumeration raw values ----
    valueKind,             \* AutomaticEnumValueKind of the raw type
    elts,                  \* the cases as written (after validateDecl)
    eIdx,                  \* position of the loop over getAllElements()
    eStopped,              \* the loop was left by break
    prevValue,             \* LiteralExpr *prevValue
    lastExplicitValueElt,  \* 0 is the null pointer
    uniqueRawValues,       \* the DenseMap, in insertion order
    rawValueExpr,          \* EnumElementDecl::getRawValueExpr()
    typeCheckedRaw,        \* getTypeCheckedRawValueExpr() is set
    eltInvalid,            \* EnumElementDecl::isInvalid()
    enumDiags              \* diagnostics emitted by checkEnumRawValues

enumVars == <<valueKind, elts, eIdx, eStopped, prevValue, lastExplicitValueElt,
              uniqueRawValues, rawValueExpr, typeCheckedRaw, eltInvalid, enumDiags>>

VARIABLES
    \* ---- inheritance clause ----
    iDecl,           \* kind of the declaration that owns the clause
    iClause,         \* the written entries (TypeLocs), in order
    iImplicit,       \* NominalTypeDecl::getImplicitProtocols
    iInheritsSelf,   \* protocols p for which p->inheritsFrom(decl) holds
    iChecked,        \* checkedInheritanceClause()
    iEntryInvalid,   \* TypeLoc::setInvalidType was called on the entry
    iSuperclass,     \* the committed superclass / raw type, NoType if none
    iProtocolsSet,   \* ProtocolDecl::isInheritedProtocolsValid()
    iProtocols,      \* the committed inherited protocols of a protocol
    iAllProtocols,   \* allProtocols when the loop over the clause ended
    iInheritedTypes, \* inheritedTypes when the loop over the clause ended
    iDiags           \* diagnostics emitted by checkInheritanceClause

inheritVars == <<iDecl, iClause, iImplicit, iInheritsSelf, iChecked, iEntryInvalid,
                 iSuperclass, iProtocolsSet, iProtocols, iAllProtocols,
                 iInheritedTypes, iDiags>>

VARIABLES
    \* ---- validateDecl ----
    vKind,       \* the kind of each declaration
    vCtx,        \* its declaration context, 0 for file scope
    vRefs,       \* the declarations its written types name
    vFails,      \* its written type or generic signature is ill-formed
    vOverride,   \* it has an override attribute and overrides nothing
    declState,   \* the fields of each declaration
    vStack,      \* the call stack of the checker
    vDiags,      \* diagnostics emitted so far
    vRequests,   \* number of requests made from outside
    vSteps,      \* steps taken for the current request
    vSnapshot    \* the requested declaration as it was when the request was made

validateVars == <<vKind, vCtx, vRefs, vFails, vOverride, declState, vStack, vDiags,
                  vRequests, vSteps, vSnapshot>>

VARIABLES
    \* ---- checkOverrides ----
    oDecl,          \* the class member whose override is resolved
    oBase,          \* the superclass members that share its base name
    oVisited,       \* the declaration checker has visited the member
    oResolves,      \* calls of checkOverrides made from outside
    oError,         \* what the last call of checkOverrides returned
    oOverridden,    \* getOverriddenDecl() of the member, 0 is the null pointer
    oAttr,          \* its OverrideAttr: "none", "valid" or "invalid"
    oAccessorAttr,  \* the OverrideAttr of each of its accessors
    oAccessorLink,  \* getOverriddenDecl() of each of its accessors
    oDiags,         \* diagnostics emitted so far
    oLookups,       \* lookups in the superclass made by the last call
    oRequired       \* the member has a RequiredAttr

VARIABLES
    \* ---- circularity checks started while another one is running ----
    suspended,      \* outer traversals: their path vector and activation records
    scanOutcome     \* how a backward scan that did not find its node ended

overrideVars == <<oDecl, oBase, oVisited, oResolves, oError, oOverridden, oAttr,
                  oAccessorAttr, oAccessorLink, oDiags, oLookups, oRequired>>

reentrantVars == <<suspended, scanOutcome>>

vars == <<circVars, enumVars, inheritVars, validateVars, overrideVars, reentrantVars>>

(***************************************************************************)
(* Helpers.                                                                *)
(***************************************************************************)
Nodes == 1..NumNodes

Kinds == {"Class", "Enum", "Protocol"}

\* A raw type that is not an enumeration (getEnumOrBoundGenericEnum is null).
NonEnumRawType == 0

Min(S) == CHOOSE x \in S : \A y \in S : x <= y

RECURSIVE SetToSeq(_)
SetToSeq(S) == IF S = {} THEN <<>> ELSE <<Min(S)>> \o SetToSeq(S \ {Min(S)})

Range(s) == {s[i] : i \in 1..Len(s)}

Last(s) == s[Len(s)]

Front(s) == SubSeq(s, 1, Len(s) - 1)

(***************************************************************************)
(* checkInheritanceClause, as far as the circularity check depends on it:  *)
(* the first call commits the written superclass / raw type, later calls   *)
(* return at once.                                                         *)
(***************************************************************************)
ClauseCommitted(decl) ==
    IF clauseChecked[decl] THEN inherited[decl] ELSE SetToSeq(clause[decl])

\* getInheritedForCycleCheck: the structural parents of decl.
getInheritedForCycleCheck(decl) ==
    IF kind = "Protocol"
    THEN inherited[decl]
    ELSE LET stored == ClauseCommitted(decl)
         IN  IF stored = <<>> THEN <<>>
             ELSE IF stored[1] \in Nodes THEN <<stored[1]>> ELSE <<>>

\* The edges stored on decl once getInheritedForCycleCheck has run.
InheritedAfterFetch(decl) ==
    IF kind = "Protocol" THEN inherited ELSE [inherited EXCEPT ![decl] = ClauseCommitted(decl)]

ClauseCheckedAfterFetch(decl) ==
    IF kind = "Protocol" THEN clauseChecked ELSE [clauseChecked EXCEPT ![decl] = TRUE]

\* Mutant: the edges of every declaration are cleared.
breakInheritanceCycleEverywhere(inh, decl) == [n \in DOMAIN inh |-> <<>>]

\* Mutant: the edges of the declaration are kept.
breakInheritanceCycleKeepsEdges(inh, decl) == inh

\* breakInheritanceCycle: clear every outgoing structural edge of decl.
breakInheritanceCycle(inh, decl) == [inh EXCEPT ![decl] = <<>>]

\* The backward scan for the repeated node; 0 when it is not on the path.
RECURSIVE ScanBack(_, _, _)
ScanBack(p, decl, i) ==
    IF i = 0 THEN 0
    ELSE IF p[i] = decl THEN i
    ELSE ScanBack(p, decl, i - 1)

\* Mutant: the cycle is taken to start at the beginning of the path.
CycleStartAtPathBegin(p, decl) == IF p = <<>> THEN 0 ELSE 1

CycleStart(p, decl) == ScanBack(p, decl, Len(p))

\* Mutant: a note is attached for every node of the cycle, the repeated node
\* included.
CycleDiagsNotesRepeatedNode(p, decl) ==
    LET cs == CycleStart(p, decl)
        cyc == SubSeq(p, cs, Len(p))
    IN  IF Len(p) - cs + 1 = 1
        THEN << [id |-> "circular", at |-> Last(p), cycle |-> cyc, direct |-> TRUE] >>
        ELSE << [id |-> "circular", at |-> decl, cycle |-> cyc, direct |-> FALSE] >>
             \o [k \in 1..(Len(p) - cs + 1) |->
                   [id |-> "here", at |-> p[cs + k - 1], cycle |-> <<>>, direct |-> FALSE]]

\* The diagnostics of one detected cycle: the circular diagnostic, then one
\* note per path element after cycleStart.
CycleDiags(p, decl) ==
    LET cs == CycleStart(p, decl)
        cyc == SubSeq(p, cs, Len(p))
    IN  IF Len(p) - cs + 1 = 1
        THEN << [id |-> "circular", at |-> Last(p), cycle |-> cyc, direct |-> TRUE] >>
        ELSE << [id |-> "circular", at |-> decl, cycle |-> cyc, direct |-> FALSE] >>
             \o [k \in 1..(Len(p) - cs) |->
                   [id |-> "here", at |-> p[cs + k], cycle |-> <<>>, direct |-> FALSE]]

(***************************************************************************)
(* One call checkCircularity(decl) made with activation records fr below   *)
(* it.                                                                     *)
(***************************************************************************)
CallChecked(decl, fr) ==
    /\ circularity[decl] = "Checked"
    /\ frames' = fr
    /\ UNCHANGED <<inherited, clauseChecked, circularity, declInvalid,
                   declErrorType, path, visited, circDiags>>

CallChecking(decl, fr) ==
    /\ circularity[decl] = "Checking"
    /\ CycleStart(path, decl) > 0
    /\ frames' = fr
    /\ circDiags' = circDiags \o CycleDiags(path, decl)
    /\ declInvalid' = [declInvalid EXCEPT ![decl] = TRUE]
    /\ declErrorType' = [declErrorType EXCEPT ![decl] = TRUE]
    /\ inherited' = breakInheritanceCycle(inherited, decl)
    /\ UNCHANGED <<clauseChecked, circularity, path, visited>>

CallUnchecked(decl, fr) ==
    /\ circularity[decl] = "Unchecked"
    /\ path' = Append(path, decl)
    /\ circularity' = [circularity EXCEPT ![decl] = "Checking"]
    /\ inherited' = InheritedAfterFetch(decl)
    /\ clauseChecked' = ClauseCheckedAfterFetch(decl)
    /\ frames' = Append(fr, [decl |-> decl,
                             inh |-> getInheritedForCycleCheck(decl),
                             i |-> 1])
    /\ visited' = visited \cup {decl}
    /\ UNCHANGED <<declInvalid, declErrorType, circDiags>>

checkCircularity(decl, fr) ==
    \/ CallChecked(decl, fr)
    \/ CallChecking(decl, fr)
    \/ CallUnchecked(decl, fr)

(***************************************************************************)
(* Idle values of the variables a specification does not use.              *)
(***************************************************************************)
NoLit == [kind |-> "None", digits |-> 0, negative |-> FALSE, str |-> ""]

EnumUnused ==
    /\ valueKind = "None"
    /\ elts = <<>>
    /\ eIdx = 1
    /\ eStopped = FALSE
    /\ prevValue = NoLit
    /\ lastExplicitValueElt = 0
    /\ uniqueRawValues = <<>>
    /\ rawValueExpr = <<>>
    /\ typeCheckedRaw = <<>>
    /\ eltInvalid = <<>>
    /\ enumDiags = <<>>

NoSnapshot == [d |-> 0, type |-> "none", invalid |-> FALSE, diags |-> 0,
               deferred |-> FALSE, rtp |-> FALSE]

ValidateUnused ==
    /\ vKind = <<>>
    /\ vCtx = <<>>
    /\ vRefs = <<>>
    /\ vFails = <<>>
    /\ vOverride = <<>>
    /\ declState = <<>>
    /\ vStack = <<>>
    /\ vDiags = <<>>
    /\ vRequests = 0
    /\ vSteps = 0
    /\ vSnapshot = NoSnapshot

NoType == "none"

InheritUnused ==
    /\ iDecl = "Class"
    /\ iClause = <<>>
    /\ iImplicit = <<>>
    /\ iInheritsSelf = {}
    /\ iChecked = FALSE
    /\ iEntryInvalid = <<>>
    /\ iSuperclass = NoType
    /\ iProtocolsSet = FALSE
    /\ iProtocols = <<>>
    /\ iAllProtocols = <<>>
    /\ iInheritedTypes = <<>>
    /\ iDiags = <<>>

AccessorKinds == {"getter", "setter", "materializeForSet"}

NoDecl ==
    [kind |-> "Func", labels |-> <<>>, simple |-> FALSE, attr |-> FALSE,
     static |-> FALSE, sel |-> "none", inExtension |-> FALSE, invalid |-> FALSE,
     hasSuperclass |-> FALSE, storage |-> "none", settable |-> FALSE,
     accessors |-> {}, failable |-> FALSE, required |-> FALSE]

OverrideUnused ==
    /\ oDecl = NoDecl
    /\ oBase = <<>>
    /\ oVisited = FALSE
    /\ oResolves = 0
    /\ oError = "none"
    /\ oOverridden = 0
    /\ oAttr = "none"
    /\ oAccessorAttr = [k \in AccessorKinds |-> "none"]
    /\ oAccessorLink = [k \in AccessorKinds |-> 0]
    /\ oDiags = <<>>
    /\ oLookups = 0
    /\ oRequired = FALSE

\* No circularity check is suspended and no backward scan has failed.
ReentrantUnused ==
    /\ suspended = <<>>
    /\ scanOutcome = "none"

CircUnused ==
    /\ ReentrantUnused
    /\ kind = "Class"
    /\ clause = <<>>
    /\ inherited = <<>>
    /\ clauseChecked = <<>>
    /\ circularity = <<>>
    /\ declInvalid = <<>>
    /\ declErrorType = <<>>
    /\ path = <<>>
    /\ frames = <<>>
    /\ started = {}
    /\ visited = {}
    /\ circDiags = <<>>

(***************************************************************************)
(* Actions of the circularity specification.                               *)
(***************************************************************************)
CircIdle == frames = <<>>

\* visitClassDecl / visitEnumDecl / visitProtocolDecl: a fresh path and a
\* top-level checkCircularity call.
StartCheck(decl) ==
    /\ CircIdle
    /\ decl \notin started
    /\ started' = started \cup {decl}
    /\ path = <<>>
    /\ checkCircularity(decl, <<>>)
    /\ UNCHANGED <<kind, clause>>

\* One iteration of the loop over the inherited declarations.
Recurse ==
    /\ frames /= <<>>
    /\ LET top == Last(frames)
       IN  /\ top.i <= Len(top.inh)
           /\ checkCircularity(top.inh[top.i],
                               [frames EXCEPT ![Len(frames)].i = top.i + 1])
    /\ UNCHANGED <<kind, clause, started>>

\* Mutant: the declaration is popped without being marked Checked.
FinishLeavesChecking ==
    /\ frames /= <<>>
    /\ LET top == Last(frames)
       IN  /\ top.i > Len(top.inh)
           /\ path' = Front(path)
           /\ frames' = Front(frames)
    /\ UNCHANGED <<kind, clause, inherited, clauseChecked, circularity, declInvalid,
                   declErrorType, started, visited, circDiags>>

\* The loop is over: mark the declaration Checked and pop it.
Finish ==
    /\ frames /= <<>>
    /\ LET top == Last(frames)
       IN  /\ top.i > Len(top.inh)
           /\ circularity' = [circularity EXCEPT ![top.decl] = "Checked"]
           /\ path' = Front(path)
           /\ frames' = Front(frames)
    /\ UNCHANGED <<kind, clause, inherited, clauseChecked, declInvalid,
                   declErrorType, started, visited, circDiags>>

ParentSets(k) ==
    IF k = "Protocol" THEN SUBSET Nodes
    ELSE IF k = "Class" THEN {{}} \cup {{m} : m \in Nodes}
    ELSE {{}} \cup {{m} : m \in Nodes \cup {NonEnumRawType}}

InitCirc ==
    /\ kind \in Kinds
    /\ clause \in [Nodes -> ParentSets(kind)]
    /\ inherited = [n \in Nodes |-> IF kind = "Protocol" THEN SetToSeq(clause[n]) ELSE <<>>]
    /\ clauseChecked = [n \in Nodes |-> kind = "Protocol"]
    /\ circularity = [n \in Nodes |-> "Unchecked"]
    /\ declInvalid = [n \in Nodes |-> FALSE]
    /\ declErrorType = [n \in Nodes |-> FALSE]
    /\ path = <<>>
    /\ frames = <<>>
    /\ started = {}
    /\ visited = {}
    /\ circDiags = <<>>
    /\ ReentrantUnused
    /\ EnumUnused
    /\ InheritUnused
    /\ ValidateUnused
    /\ OverrideUnused

NextCirc ==
    /\ \/ \E decl \in Nodes : StartCheck(decl)
       \/ Recurse
       \/ Finish
    /\ UNCHANGED <<enumVars, inheritVars, validateVars, overrideVars, reentrantVars>>

SpecCirc == InitCirc /\ [][NextCirc]_vars

(***************************************************************************)
(* Circularity checks started from within another one.                     *)
(*                                                                         *)
(* getInheritedForCycleCheck of a class or an enumeration calls            *)
(* checkInheritanceClause, which resolves the types written in the clause. *)
(* Resolving a type validates the declarations it names, and validateDecl  *)
(* of a type parameter calls typeCheckDecl(nominal, true) on the nominal   *)
(* declaration that owns it: visitClassDecl / visitEnumDecl then run their *)
(* circularity block with a new, empty path vector while the declarations  *)
(* of the outer traversal stay in state Checking.                          *)
(***************************************************************************)
\* Depth of circularity checks suspended inside one another.
MaxNesting == 2

\* The ways the backward scan ends when the declaration is not on the path
\* vector p.  With assertions enabled and a non-empty vector the assertion
\* "Missing cycle start?" fires at p.begin(); without assertions, and for an
\* empty vector in either build, the scan reads before the start of the vector.
MissingStartOutcomes(p) ==
    IF p = <<>> THEN {"outOfBounds"} ELSE {"assertion", "outOfBounds"}

\* checkCircularity(decl) called with the path vector p and the activation
\* records fr below it.
checkCircularityWithPath(decl, p, fr) ==
    \/ /\ circularity[decl] = "Checked"
       /\ path' = p
       /\ frames' = fr
       /\ UNCHANGED <<inherited, clauseChecked, circularity, declInvalid,
                      declErrorType, visited, circDiags, scanOutcome>>
    \/ /\ circularity[decl] = "Checking"
       /\ CycleStart(p, decl) > 0
       /\ path' = p
       /\ frames' = fr
       /\ circDiags' = circDiags \o CycleDiags(p, decl)
       /\ declInvalid' = [declInvalid EXCEPT ![decl] = TRUE]
       /\ declErrorType' = [declErrorType EXCEPT ![decl] = TRUE]
       /\ inherited' = breakInheritanceCycle(inherited, decl)
       /\ UNCHANGED <<clauseChecked, circularity, visited, scanOutcome>>
    \/ /\ circularity[decl] = "Checking"
       /\ CycleStart(p, decl) = 0
       /\ path' = p
       /\ frames' = fr
       /\ scanOutcome' \in MissingStartOutcomes(p)
       /\ UNCHANGED <<inherited, clauseChecked, circularity, declInvalid,
                      declErrorType, visited, circDiags>>
    \/ /\ circularity[decl] = "Unchecked"
       /\ path' = Append(p, decl)
       /\ circularity' = [circularity EXCEPT ![decl] = "Checking"]
       /\ frames' = Append(fr, [decl |-> decl, inh |-> <<>>, i |-> 0])
       /\ visited' = visited \cup {decl}
       /\ UNCHANGED <<inherited, clauseChecked, declInvalid, declErrorType,
                      circDiags, scanOutcome>>

\* The program runs on: no backward scan has failed.
Running == scanOutcome = "none"

\* The innermost call is inside getInheritedForCycleCheck.
FetchPending == frames /= <<>> /\ Last(frames).i = 0

\* visitClassDecl / visitEnumDecl / visitProtocolDecl reached from the
\* top-level walk over the declarations.
VisitNominalDecl(decl) ==
    /\ Running
    /\ frames = <<>>
    /\ suspended = <<>>
    /\ decl \notin started
    /\ started' = started \cup {decl}
    /\ checkCircularityWithPath(decl, <<>>, <<>>)
    /\ UNCHANGED <<kind, clause, suspended>>

\* getInheritedForCycleCheck returns the structural parents of the innermost
\* declaration.
FetchInherited ==
    /\ Running
    /\ FetchPending
    /\ LET decl == Last(frames).decl
       IN  /\ inherited' = InheritedAfterFetch(decl)
           /\ clauseChecked' = ClauseCheckedAfterFetch(decl)
           /\ frames' = [frames EXCEPT ![Len(frames)] =
                            [decl |-> decl, inh |-> getInheritedForCycleCheck(decl), i |-> 1]]
    /\ UNCHANGED <<kind, clause, circularity, declInvalid, declErrorType, path,
                   started, visited, circDiags, suspended, scanOutcome>>

\* The declarations whose inheritance clause is being resolved: each is
\* marked isBeingTypeChecked while validateType runs on its clause.
BeingTypeChecked ==
    {Last(frames).decl} \cup
    {Last(suspended[k].frames).decl : k \in 1..Len(suspended)}

\* While a type written in the clause of the innermost declaration is being
\* resolved, another nominal declaration is visited: typeCheckDecl(nominal,
\* true) runs its circularity block with a new path vector.  validateDecl
\* returns early for the members of a declaration marked isBeingTypeChecked,
\* so such a declaration is not visited.
VisitNominalDeclReentrantly(decl) ==
    /\ Running
    /\ FetchPending
    /\ ~clauseChecked[Last(frames).decl]
    /\ clause[Last(frames).decl] /= {}
    /\ decl \notin BeingTypeChecked
    /\ circularity[decl] /= "Checked"
    /\ Len(suspended) < MaxNesting
    /\ suspended' = Append(suspended, [path |-> path, frames |-> frames])
    /\ started' = started \cup {decl}
    /\ checkCircularityWithPath(decl, <<>>, <<>>)
    /\ UNCHANGED <<kind, clause>>

\* One iteration of the loop over the inherited declarations.
RecurseWithPath ==
    /\ Running
    /\ frames /= <<>>
    /\ LET top == Last(frames)
       IN  /\ top.i \in 1..Len(top.inh)
           /\ checkCircularityWithPath(top.inh[top.i], path,
                                       [frames EXCEPT ![Len(frames)].i = top.i + 1])
    /\ UNCHANGED <<kind, clause, started, suspended>>

\* The loop is over: mark the declaration Checked and pop it.
FinishWithPath ==
    /\ Running
    /\ frames /= <<>>
    /\ LET top == Last(frames)
       IN  /\ top.i > Len(top.inh)
           /\ circularity' = [circularity EXCEPT ![top.decl] = "Checked"]
           /\ path' = Front(path)
           /\ frames' = Front(frames)
    /\ UNCHANGED <<kind, clause, inherited, clauseChecked, declInvalid,
                   declErrorType, started, visited, circDiags, suspended, scanOutcome>>

\* The re-entrant visit returns: the outer traversal goes on resolving its
\* clause with its own path vector.
ReturnToOuter ==
    /\ Running
    /\ frames = <<>>
    /\ suspended /= <<>>
    /\ path' = Last(suspended).path
    /\ frames' = Last(suspended).frames
    /\ suspended' = Front(suspended)
    /\ UNCHANGED <<kind, clause, inherited, clauseChecked, circularity, declInvalid,
                   declErrorType, started, visited, circDiags, scanOutcome>>

InitReentrant == InitCirc

NextReentrant ==
    /\ \/ \E decl \in Nodes : VisitNominalDecl(decl)
       \/ FetchInherited
       \/ \E decl \in Nodes : VisitNominalDeclReentrantly(decl)
       \/ RecurseWithPath
       \/ FinishWithPath
       \/ ReturnToOuter
    /\ UNCHANGED <<enumVars, inheritVars, validateVars, overrideVars>>

SpecReentrant == InitReentrant /\ [][NextReentrant]_vars

(***************************************************************************)
(* Enumeration raw values: RawValueKey and checkEnumRawValues.             *)
(***************************************************************************)
\* Literal expressions.  An integer literal is its digits and a sign flag; a
\* floating literal is an IEEE double given by its 16 most significant bits
\* (sign, 11 exponent bits, 4 fraction bits), the other 48 bits being zero.
IntLit(v) == [kind |-> "Int", digits |-> IF v < 0 THEN -v ELSE v,
              negative |-> v < 0, str |-> ""]

FloatLit(top) == [kind |-> "Float", digits |-> top, negative |-> FALSE, str |-> ""]

StrLit(t) == [kind |-> "String", digits |-> 0, negative |-> FALSE, str |-> t]

\* IntegerLiteralExpr::getValue
IntValue(lit) == IF lit.negative THEN -lit.digits ELSE lit.digits

\* The words of a two's complement number, least significant first, in
\* 16-bit limbs.
RECURSIVE Limbs(_, _)
Limbs(v, n) == IF n = 0 THEN <<>> ELSE <<v % 65536>> \o Limbs(v \div 65536, n - 1)

\* IntValueTy: sextOrTrunc(128), then the two 64-bit words.
IntValueTy(v) ==
    LET bits128 == Limbs(v, 8)
    IN  [v0 |-> SubSeq(bits128, 1, 4), v1 |-> SubSeq(bits128, 5, 8)]

RECURSIVE Pow2(_)
Pow2(n) == IF n = 0 THEN 1 ELSE 2 * Pow2(n - 1)

\* APFloat::convertToInteger(asInt, rmTowardZero, &isExact) into 127 signed
\* bits, for a double whose low 48 bits are zero.
convertToInteger(top) ==
    LET sign == top \div 32768
        exponent == (top \div 16) % 2048
        fraction == top % 16
        sig == 16 + fraction
        sh == exponent - 1023 - 4
    IN  IF exponent = 0 /\ fraction = 0
        THEN [value |-> 0, opOK |-> TRUE, isExact |-> sign = 0]
        ELSE IF exponent = 0
        THEN [value |-> 0, opOK |-> FALSE, isExact |-> FALSE]
        ELSE IF exponent = 2047 \/ sh + 5 > 126
        THEN [value |-> 0, opOK |-> FALSE, isExact |-> FALSE]
        ELSE IF sh >= 0
        THEN [value |-> (IF sign = 1 THEN -1 ELSE 1) * sig * Pow2(sh),
              opOK |-> TRUE, isExact |-> TRUE]
        ELSE IF -sh <= 4 /\ sig % Pow2(-sh) = 0
        THEN [value |-> (IF sign = 1 THEN -1 ELSE 1) * (sig \div Pow2(-sh)),
              opOK |-> TRUE, isExact |-> TRUE]
        ELSE [value |-> 0, opOK |-> FALSE, isExact |-> FALSE]

\* bitcastToAPInt of a 64-bit double: data[0], and 0 for the second word.
FloatValueTy(top) == [v0 |-> <<0, 0, 0, top>>, v1 |-> <<0, 0, 0, 0>>]

\* Mutant: a floating literal is keyed as an integer whenever the conversion
\* status is opOK, exact or not.
RawValueKeyIgnoresExact(lit) ==
    IF lit.kind = "Int"
    THEN [kind |-> "Int", val |-> IntValueTy(IntValue(lit)), stringValue |-> ""]
    ELSE IF lit.kind = "Float"
    THEN LET c == convertToInteger(lit.digits)
         IN  IF c.opOK
             THEN [kind |-> "Int", val |-> IntValueTy(c.value), stringValue |-> ""]
             ELSE [kind |-> "Float", val |-> FloatValueTy(lit.digits), stringValue |-> ""]
    ELSE [kind |-> "String", val |-> IntValueTy(0), stringValue |-> lit.str]

\* Mutant: a floating literal is always keyed by its bit pattern.
RawValueKeyFloatByBits(lit) ==
    IF lit.kind = "Int"
    THEN [kind |-> "Int", val |-> IntValueTy(IntValue(lit)), stringValue |-> ""]
    ELSE IF lit.kind = "Float"
    THEN [kind |-> "Float", val |-> FloatValueTy(lit.digits), stringValue |-> ""]
    ELSE [kind |-> "String", val |-> IntValueTy(0), stringValue |-> lit.str]

\* RawValueKey::RawValueKey(LiteralExpr *)
RawValueKey(lit) ==
    IF lit.kind = "Int"
    THEN [kind |-> "Int", val |-> IntValueTy(IntValue(lit)), stringValue |-> ""]
    ELSE IF lit.kind = "Float"
    THEN LET c == convertToInteger(lit.digits)
         IN  IF c.opOK /\ c.isExact
             THEN [kind |-> "Int", val |-> IntValueTy(c.value), stringValue |-> ""]
             ELSE [kind |-> "Float", val |-> FloatValueTy(lit.digits), stringValue |-> ""]
    ELSE [kind |-> "String", val |-> IntValueTy(0), stringValue |-> lit.str]

\* DenseMapInfo<RawValueKey>::isEqual
isEqual(a, b) ==
    IF a.kind /= b.kind THEN FALSE
    ELSE IF a.kind = "Float" THEN a.val.v0 = b.val.v0 /\ a.val.v1 = b.val.v1
    ELSE IF a.kind = "Int" THEN a.val.v0 = b.val.v0 /\ a.val.v1 = b.val.v1
    ELSE a.stringValue = b.stringValue

Cases == 1..Len(elts)

\* EnumElementDecl::getNameStr
CaseName(i) ==
    LET n == elts[i].name
    IN  IF n = 1 THEN "c1" ELSE IF n = 2 THEN "c2" ELSE IF n = 3 THEN "c3" ELSE "c4"

EnumDiag(id, at) == [id |-> id, at |-> at]

\* Mutant: the previous value is repeated instead of incremented.
getAutomaticRawValueExprNoIncrement(vk, forElt, prev) ==
    IF vk = "None"
    THEN [expr |-> NoLit,
          diags |-> <<EnumDiag("enum_non_integer_convertible_raw_type_no_value", forElt)>>]
    ELSE IF vk = "String"
    THEN [expr |-> StrLit(CaseName(forElt)), diags |-> <<>>]
    ELSE IF prev = NoLit
    THEN [expr |-> IntLit(0), diags |-> <<>>]
    ELSE IF prev.kind = "Int"
    THEN [expr |-> prev, diags |-> <<>>]
    ELSE [expr |-> NoLit,
          diags |-> <<EnumDiag("enum_non_integer_raw_value_auto_increment", forElt)>>]

\* getAutomaticRawValueExpr: the literal (NoLit for null) and its diagnostics.
getAutomaticRawValueExpr(vk, forElt, prev) ==
    IF vk = "None"
    THEN [expr |-> NoLit,
          diags |-> <<EnumDiag("enum_non_integer_convertible_raw_type_no_value", forElt)>>]
    ELSE IF vk = "String"
    THEN [expr |-> StrLit(CaseName(forElt)), diags |-> <<>>]
    ELSE IF prev = NoLit
    THEN [expr |-> IntLit(0), diags |-> <<>>]
    ELSE IF prev.kind = "Int"
    THEN LET nextVal == IntValue(prev) + 1
             negative == nextVal < 0
         IN  [expr |-> [kind |-> "Int",
                        digits |-> IF negative THEN -nextVal ELSE nextVal,
                        negative |-> negative, str |-> ""],
              diags |-> <<>>]
    ELSE [expr |-> NoLit,
          diags |-> <<EnumDiag("enum_non_integer_raw_value_auto_increment", forElt)>>]

\* The state of the loop of checkEnumRawValues as one record.
EnumState ==
    [raw |-> rawValueExpr, tcd |-> typeCheckedRaw, inv |-> eltInvalid,
     prev |-> prevValue, lastExp |-> lastExplicitValueElt,
     uniq |-> uniqueRawValues, diags |-> enumDiags, stop |-> FALSE]

\* The case has an explicit raw value: type-check it, remember the case.
ExplicitRawValue(st, i) ==
    [st EXCEPT !.tcd[i] = elts[i].tc, !.lastExp = i]

\* Mutant: the loop goes on after a value could not be synthesized.
AutomaticRawValueKeepsGoing(st, i) ==
    LET nextValue == getAutomaticRawValueExpr(valueKind, i, st.prev)
    IN  IF nextValue.expr = NoLit
        THEN [st EXCEPT !.diags = @ \o nextValue.diags]
        ELSE [st EXCEPT !.raw[i] = nextValue.expr, !.tcd[i] = TRUE]

\* The case has none: synthesize one, or leave the loop.
AutomaticRawValue(st, i) ==
    LET nextValue == getAutomaticRawValueExpr(valueKind, i, st.prev)
    IN  IF nextValue.expr = NoLit
        THEN [st EXCEPT !.diags = @ \o nextValue.diags, !.stop = TRUE]
        ELSE [st EXCEPT !.raw[i] = nextValue.expr, !.tcd[i] = TRUE]

\* Entries of the map whose key equals key (at most one).
Occupants(uniq, key) == {k \in 1..Len(uniq) : isEqual(uniq[k].key, key)}

\* The diagnostics of a collision of case i with the occupant prevSource.
CollisionDiags(st, i, prevSource) ==
    LET foundElt == prevSource.sourceElt
    IN  <<EnumDiag("enum_raw_value_not_unique", i)>>
        \o (IF st.lastExp /= i /\ valueKind = "Integer"
            THEN <<EnumDiag("enum_raw_value_incrementing_from_here", st.lastExp)>>
            ELSE <<>>)
        \o <<EnumDiag("enum_raw_value_used_here", foundElt)>>
        \o (IF foundElt /= prevSource.lastExplicitValueElt /\ valueKind = "Integer"
            THEN IF prevSource.lastExplicitValueElt /= 0
                 THEN <<EnumDiag("enum_raw_value_incrementing_from_here",
                                 prevSource.lastExplicitValueElt)>>
                 ELSE <<EnumDiag("enum_raw_value_incrementing_from_zero", 1)>>
            ELSE <<>>)

\* Mutant: a colliding case takes the place of the occupant in the map.
CheckUniqueReplacesOccupant(st, i) ==
    LET key == RawValueKey(st.raw[i])
        source == [key |-> key, sourceElt |-> i, lastExplicitValueElt |-> st.lastExp]
        occ == Occupants(st.uniq, key)
    IN  IF occ = {}
        THEN [st EXCEPT !.uniq = Append(@, source)]
        ELSE [st EXCEPT !.diags = @ \o CollisionDiags(st, i, st.uniq[Min(occ)]),
                        !.uniq[Min(occ)] = source]

\* Check that the raw value is unique.
CheckUnique(st, i) ==
    LET key == RawValueKey(st.raw[i])
        source == [key |-> key, sourceElt |-> i, lastExplicitValueElt |-> st.lastExp]
        occ == Occupants(st.uniq, key)
    IN  IF occ = {}
        THEN [st EXCEPT !.uniq = Append(@, source)]
        ELSE [st EXCEPT !.diags = @ \o CollisionDiags(st, i, st.uniq[Min(occ)])]

\* One iteration of the loop over the cases.
CheckElement(st, i) ==
    IF st.inv[i] THEN st
    ELSE IF elts[i].payload
    THEN [st EXCEPT !.diags = @ \o <<EnumDiag("enum_with_raw_type_case_with_argument", i),
                                     EnumDiag("enum_raw_type_here", 0)>>]
    ELSE LET a == IF st.raw[i] /= NoLit
                  THEN ExplicitRawValue(st, i)
                  ELSE AutomaticRawValue(st, i)
         IN  IF a.stop THEN a
             ELSE LET b == [a EXCEPT !.prev = a.raw[i]]
                  IN  IF ~b.tcd[i]
                      THEN [b EXCEPT !.inv[i] = TRUE]
                      ELSE CheckUnique(b, i)

\* checkEnumRawValues, one case per step.
CheckCase ==
    /\ ~eStopped
    /\ eIdx <= Len(elts)
    /\ LET st == CheckElement(EnumState, eIdx)
       IN  /\ rawValueExpr' = st.raw
           /\ typeCheckedRaw' = st.tcd
           /\ eltInvalid' = st.inv
           /\ prevValue' = st.prev
           /\ lastExplicitValueElt' = st.lastExp
           /\ uniqueRawValues' = st.uniq
           /\ enumDiags' = st.diags
           /\ eStopped' = st.stop
           /\ eIdx' = IF st.stop THEN eIdx ELSE eIdx + 1
    /\ UNCHANGED <<valueKind, elts>>

ValueKinds == {"Integer", "String", "None"}

IntLits == {IntLit(0), IntLit(1), IntLit(5)}

\* 0.0, -0.0, 1.0 and 1.5
FloatLits == {FloatLit(0), FloatLit(32768), FloatLit(16368), FloatLit(16376)}

StrLits == {StrLit("c2"), StrLit("x")}

\* The cases as written.  An integer literal type-checks exactly when the raw
\* type is IntegerLiteralConvertible, a string literal does when it is
\* StringLiteralConvertible; the other outcomes of typeCheckExpression are
\* left open.
WrittenCases(vk) ==
    {[invalid |-> TRUE, payload |-> FALSE, lit |-> NoLit, tc |-> FALSE],
     [invalid |-> FALSE, payload |-> TRUE, lit |-> NoLit, tc |-> FALSE],
     [invalid |-> FALSE, payload |-> FALSE, lit |-> NoLit, tc |-> FALSE]}
    \cup {[invalid |-> FALSE, payload |-> FALSE, lit |-> l, tc |-> vk = "Integer"] :
            l \in IntLits}
    \cup {[invalid |-> FALSE, payload |-> FALSE, lit |-> l, tc |-> t] :
            l \in FloatLits, t \in BOOLEAN}
    \cup {[invalid |-> FALSE, payload |-> FALSE, lit |-> l, tc |-> t] :
            l \in StrLits, t \in IF vk = "String" THEN {TRUE} ELSE BOOLEAN}

\* The names of the cases: each case carries the index of the first case
\* written with its name, so two cases have the same name exactly when they
\* carry the same index.
CaseNames ==
    {n \in [1..MaxCases -> 1..MaxCases] : \A i \in 1..MaxCases : n[i] <= i /\ n[n[i]] = n[i]}

NamedCases(w, n) ==
    [i \in 1..MaxCases |->
        [invalid |-> w[i].invalid, payload |-> w[i].payload, lit |-> w[i].lit,
         tc |-> w[i].tc, name |-> n[i]]]

\* Mutant: a case that repeats the name of an earlier case is left valid.
checkDuplicateEnumMembersMarksNothing(es) == es

\* visitEnumDecl, first pass: a case that repeats the name of an earlier case
\* gets the error type and is marked invalid.
checkDuplicateEnumMembers(es) ==
    [i \in DOMAIN es |->
        IF \E j \in 1..(i - 1) : es[j].name = es[i].name
        THEN [es[i] EXCEPT !.invalid = TRUE]
        ELSE es[i]]

InitEnum ==
    /\ valueKind \in ValueKinds
    /\ elts \in {checkDuplicateEnumMembers(NamedCases(w, n)) :
                    w \in [1..MaxCases -> WrittenCases(valueKind)], n \in CaseNames}
    /\ eIdx = 1
    /\ eStopped = FALSE
    /\ prevValue = NoLit
    /\ lastExplicitValueElt = 0
    /\ uniqueRawValues = <<>>
    /\ rawValueExpr = [i \in 1..MaxCases |-> elts[i].lit]
    /\ typeCheckedRaw = [i \in 1..MaxCases |-> FALSE]
    /\ eltInvalid = [i \in 1..MaxCases |-> elts[i].invalid]
    /\ enumDiags = <<>>
    /\ CircUnused
    /\ InheritUnused
    /\ ValidateUnused
    /\ OverrideUnused

NextEnum ==
    /\ CheckCase
    /\ UNCHANGED <<circVars, inheritVars, validateVars, overrideVars, reentrantVars>>

SpecEnum == InitEnum /\ [][NextEnum]_vars

EnumDone == eStopped \/ eIdx > Len(elts)

\* Whether the type of case i is the error type.  A case that validateDecl
\* left invalid had its type overwritten with the error type; the loop of
\* checkEnumRawValues never overwrites the type of a case.
EltHasErrorType(i) == elts[i].invalid

(***************************************************************************)
(* TypeChecker::checkInheritanceClause over one clause.                    *)
(***************************************************************************)
\* A type reference of a clause: how it is spelled, its canonical type, what
\* kind of type it resolves to, the protocols of an existential type, and
\* whether validateType reports an error for it.
TypeRef(name, canon, cat, protos, fails) ==
    [name |-> name, canon |-> canon, cat |-> cat, protos |-> protos, fails |-> fails]

TypeRefs ==
    {TypeRef("P1", "P1", "existential", <<"P1">>, FALSE),
     TypeRef("AliasP1", "P1", "existential", <<"P1">>, FALSE),
     TypeRef("P2", "P2", "existential", <<"P2">>, FALSE),
     TypeRef("P1&P2", "P1&P2", "existential", <<"P1", "P2">>, FALSE),
     TypeRef("C1", "C1", "class", <<>>, FALSE),
     TypeRef("AliasC1", "C1", "class", <<>>, FALSE),
     TypeRef("C2", "C2", "class", <<>>, FALSE),
     TypeRef("Int", "Int", "other", <<>>, FALSE),
     TypeRef("String", "String", "other", <<>>, FALSE),
     TypeRef("Error", "Error", "error", <<>>, FALSE),
     TypeRef("Unknown", "Unknown", "error", <<>>, TRUE)}

DeclKinds == {"Class", "Struct", "Enum", "Protocol", "Extension",
              "ProtocolExtension", "ConstrainedExtension",
              "GenericTypeParam", "AssociatedType"}

IsExtension(d) == d \in {"Extension", "ProtocolExtension", "ConstrainedExtension"}

\* canInheritClass
canInheritClass(d) == d \in {"Class", "GenericTypeParam", "AssociatedType"}

\* SmallSetVector::insert of a range: keeps the first occurrence.
RECURSIVE SetVectorInsert(_, _)
SetVectorInsert(sv, xs) ==
    IF xs = <<>> THEN sv
    ELSE SetVectorInsert(IF Head(xs) \in Range(sv) THEN sv ELSE Append(sv, Head(xs)),
                         Tail(xs))

InheritDiag(id, at, highlight, first, second) ==
    [id |-> id, at |-> at, highlight |-> highlight, first |-> first, second |-> second]

\* Location of the declaration itself, as opposed to an entry of the clause.
DeclLoc == 0

\* Mutant: a repeated canonical type is never found in inheritedTypes.
KnownTypeNeverFound(inheritedTypes, canon) == 0

\* inheritedTypes.find: the position recorded for a canonical type, 0 if none.
KnownType(inheritedTypes, canon) ==
    IF \E k \in 1..Len(inheritedTypes) : inheritedTypes[k].canon = canon
    THEN LET k == CHOOSE k \in 1..Len(inheritedTypes) : inheritedTypes[k].canon = canon
         IN  inheritedTypes[k].range
    ELSE 0

IsNominal(d) == d \in {"Class", "Struct", "Enum", "Protocol"}

\* addImplicitConformances
addImplicitConformances(d, implicit, allProtocols) ==
    IF IsNominal(d) THEN SetVectorInsert(allProtocols, implicit) ELSE allProtocols

\* Mutant: the loop starts with a superclass already recorded.
ClauseLoopStartWithSuperclass(d, implicit, n) ==
    [superclassTy |-> "C2", superclassRange |-> 0,
     allProtocols |-> IF d \in {"Class", "Struct", "Enum", "Protocol"}
                      THEN implicit ELSE <<>>,
     inheritedTypes |-> <<>>,
     invalid |-> [k \in 1..n |-> FALSE],
     diags |-> <<>>]

\* The state of the loop over the clause before its first iteration.
ClauseLoopStart(d, implicit, n) ==
    [superclassTy |-> NoType, superclassRange |-> 0,
     allProtocols |-> addImplicitConformances(d, implicit, <<>>),
     inheritedTypes |-> <<>>,
     invalid |-> [k \in 1..n |-> FALSE],
     diags |-> <<>>]

\* One iteration of the loop: entry i of the clause of a declaration of kind d.
CheckEntry(ls, d, cl, i) ==
    LET inh == cl[i]
        marked == [ls EXCEPT !.invalid[i] = TRUE]
    IN  IF inh.fails THEN marked
        ELSE IF inh.cat = "error" THEN ls
        ELSE IF KnownType(ls.inheritedTypes, inh.canon) /= 0
        THEN [marked EXCEPT !.diags = @ \o
                <<InheritDiag("duplicate_inheritance", i,
                              KnownType(ls.inheritedTypes, inh.canon), inh.canon, "")>>]
        ELSE LET reg == [ls EXCEPT !.inheritedTypes =
                                       Append(@, [canon |-> inh.canon, range |-> i])]
                 regMarked == [reg EXCEPT !.invalid[i] = TRUE]
             IN  IF inh.cat = "existential"
                 THEN [reg EXCEPT !.allProtocols = SetVectorInsert(@, inh.protos)]
                 ELSE IF d = "Enum"
                 THEN IF ls.superclassTy /= NoType
                      THEN [regMarked EXCEPT !.diags = @ \o
                              <<InheritDiag("multiple_enum_raw_types", i, ls.superclassRange,
                                            ls.superclassTy, inh.canon)>>]
                      ELSE [reg EXCEPT
                              !.diags = @ \o
                                 (IF i > 1
                                  THEN <<InheritDiag("raw_type_not_first", i, 0, inh.canon, "")>>
                                  ELSE <<>>),
                              !.superclassTy = inh.canon,
                              !.superclassRange = i,
                              !.allProtocols = SetVectorInsert(@, <<"RawRepresentable">>)]
                 ELSE IF inh.cat = "class"
                 THEN IF ls.superclassTy /= NoType
                      THEN [regMarked EXCEPT !.diags = @ \o
                              <<InheritDiag("multiple_inheritance", i, ls.superclassRange,
                                            ls.superclassTy, inh.canon)>>]
                      ELSE IF ~canInheritClass(d)
                      THEN [regMarked EXCEPT !.diags = @ \o
                              <<InheritDiag(IF IsExtension(d)
                                            THEN "extension_class_inheritance"
                                            ELSE "non_class_inheritance",
                                            DeclLoc, i, inh.canon, "")>>]
                      ELSE [reg EXCEPT
                              !.diags = @ \o
                                 (IF i > 1
                                  THEN <<InheritDiag("superclass_not_first", i, 0, inh.canon, "")>>
                                  ELSE <<>>),
                              !.superclassTy = inh.canon,
                              !.superclassRange = i]
                 ELSE [regMarked EXCEPT !.diags = @ \o
                         <<InheritDiag(IF canInheritClass(d)
                                       THEN "inheritance_from_non_protocol_or_class"
                                       ELSE "inheritance_from_non_protocol",
                                       DeclLoc, 0, inh.canon, "")>>]

\* Mutant: the entries i..n of the clause are examined from the last to the
\* first.
RECURSIVE CheckEntriesLastFirst(_, _, _, _)
CheckEntriesLastFirst(ls, d, cl, i) ==
    IF i > Len(cl) THEN ls
    ELSE CheckEntry(CheckEntriesLastFirst(ls, d, cl, i + 1), d, cl, i)

\* The loop over the entries i..n of the clause.
RECURSIVE CheckEntries(_, _, _, _)
CheckEntries(ls, d, cl, i) ==
    IF i > Len(cl) THEN ls ELSE CheckEntries(CheckEntry(ls, d, cl, i), d, cl, i + 1)

\* Mutant: nothing is dropped from the protocols of the clause.
PruneCircularKeepsAll(allProtocols, self, inheritsSelf) == allProtocols

\* The circularity pruning of a protocol's own clause: drop the protocol
\* itself and every protocol that inherits from it; one diagnostic at most.
RECURSIVE PruneCircular(_, _, _)
PruneCircular(allProtocols, self, inheritsSelf) ==
    IF allProtocols = <<>> THEN <<>>
    ELSE IF Head(allProtocols) = self \/ Head(allProtocols) \in inheritsSelf
    THEN PruneCircular(Tail(allProtocols), self, inheritsSelf)
    ELSE <<Head(allProtocols)>> \o PruneCircular(Tail(allProtocols), self, inheritsSelf)

\* The protocol whose clause is checked, when the declaration is a protocol.
SelfProtocol == "P1"

\* checkInheritanceClause(decl)
CheckInheritanceClause ==
    /\ IF iChecked
       THEN UNCHANGED <<iChecked, iEntryInvalid, iSuperclass, iProtocolsSet, iProtocols,
                        iAllProtocols, iInheritedTypes, iDiags>>
       ELSE IF iDecl = "ProtocolExtension" /\ iClause /= <<>>
       THEN /\ iChecked' = TRUE
            /\ iDiags' = iDiags \o
                 <<InheritDiag("extension_protocol_inheritance", DeclLoc, 1, "", "")>>
            /\ UNCHANGED <<iEntryInvalid, iSuperclass, iProtocolsSet, iProtocols,
                           iAllProtocols, iInheritedTypes>>
       ELSE LET early == IF iDecl = "ConstrainedExtension" /\ iClause /= <<>>
                         THEN <<InheritDiag("extension_constrained_inheritance",
                                            DeclLoc, 1, "", "")>>
                         ELSE <<>>
                ls == CheckEntries(ClauseLoopStart(iDecl, iImplicit, Len(iClause)),
                                   iDecl, iClause, 1)
                circular == \E k \in 1..Len(ls.allProtocols) :
                               \/ ls.allProtocols[k] = SelfProtocol
                               \/ ls.allProtocols[k] \in iInheritsSelf
            IN  /\ iChecked' = TRUE
                /\ iEntryInvalid' = ls.invalid
                /\ iAllProtocols' = ls.allProtocols
                /\ iInheritedTypes' = ls.inheritedTypes
                /\ IF iDecl = "Protocol"
                   THEN IF iProtocolsSet
                        THEN /\ iDiags' = iDiags \o early \o ls.diags
                             /\ UNCHANGED <<iSuperclass, iProtocolsSet, iProtocols>>
                        ELSE /\ iDiags' = iDiags \o early \o ls.diags \o
                                  (IF circular
                                   THEN <<InheritDiag("circular_protocol_def", DeclLoc, 0,
                                                      SelfProtocol, "")>>
                                   ELSE <<>>)
                             /\ iProtocols' = PruneCircular(ls.allProtocols, SelfProtocol,
                                                            iInheritsSelf)
                             /\ iProtocolsSet' = TRUE
                             /\ UNCHANGED iSuperclass
                   ELSE /\ iDiags' = iDiags \o early \o ls.diags
                        /\ iSuperclass' = IF iDecl \in {"Class", "Enum"}
                                          THEN ls.superclassTy
                                          ELSE iSuperclass
                        /\ UNCHANGED <<iProtocolsSet, iProtocols>>
    /\ UNCHANGED <<iDecl, iClause, iImplicit, iInheritsSelf>>

Clauses == UNION {[1..n -> TypeRefs] : n \in 0..MaxClause}

InitInherit ==
    /\ iDecl \in DeclKinds
    /\ iClause \in Clauses
    /\ iImplicit \in IF IsNominal(iDecl) THEN {<<>>, <<"P2">>} ELSE {<<>>}
    /\ iInheritsSelf \in IF iDecl = "Protocol" THEN {{}, {"P2"}} ELSE {{}}
    /\ iChecked = FALSE
    /\ iEntryInvalid = [k \in 1..Len(iClause) |-> FALSE]
    /\ iSuperclass = NoType
    /\ iProtocolsSet \in IF iDecl = "Protocol" THEN BOOLEAN ELSE {FALSE}
    /\ iProtocols = <<>>
    /\ iAllProtocols = <<>>
    /\ iInheritedTypes = <<>>
    /\ iDiags = <<>>
    /\ CircUnused
    /\ EnumUnused
    /\ ValidateUnused
    /\ OverrideUnused

NextInherit ==
    /\ CheckInheritanceClause
    /\ UNCHANGED <<circVars, enumVars, validateVars, overrideVars, reentrantVars>>

SpecInherit == InitInherit /\ [][NextInherit]_vars

(***************************************************************************)
(* TypeChecker::validateDecl and the visitors it reaches, as a machine     *)
(* with an explicit call stack.  A declaration is described by its kind,   *)
(* its declaration context (0 for file scope) and the declarations whose   *)
(* names its written types mention (vRefs): resolving such a name makes    *)
(* the type resolver call validateDecl on the declaration it finds.        *)
(***************************************************************************)
Decls == 1..NumDecls

NominalKinds == {"Class", "Enum", "Protocol"}

TypeKinds == {"Class", "Enum", "Protocol", "TypeAlias", "AssociatedType", "GenericTypeParam"}

VKinds == TypeKinds \cup {"Extension", "EnumElement", "Var"}

Frame(fn, d, pc) ==
    [fn |-> fn, d |-> d, pc |-> pc, rtp |-> FALSE, saved |-> FALSE, i |-> 1]

\* The members of a declaration, in declaration order.
Members(c) == SetToSeq({d \in Decls : vCtx[d] = c})

HasGenericParams(c) == \E d \in Decls : vCtx[d] = c /\ vKind[d] = "GenericTypeParam"

Machine == [ds |-> declState, stack |-> vStack, diags |-> vDiags]

Top(m) == m.stack[Len(m.stack)]

Ret(m) == [m EXCEPT !.stack = Front(@)]

Goto(m, pc) == [m EXCEPT !.stack[Len(m.stack)].pc = pc]

Call(m, frame) == [m EXCEPT !.stack = Append(@, frame)]

Diagnose(m, id, d) == [m EXCEPT !.diags = Append(@, [id |-> id, at |-> d])]

hasType(m, d) == m.ds[d].type /= "none"

\* Decl::computeType: gives the declaration its declared type.
computeType(m, d) == [m EXCEPT !.ds[d].type = "T"]

\* overwriteType(ErrorType) followed by setInvalid
SetErrorInvalid(m, d) == [m EXCEPT !.ds[d].type = "Error", !.ds[d].invalid = TRUE]

\* Leaving validateDecl after its kind-specific part was reached.
RetValidated(m, d) == Ret([m EXCEPT !.ds[d].completed = TRUE])

\* Entering the validation body of a declaration (past its re-entrancy guard).
EnterBody(m, d) == [m EXCEPT !.ds[d].bodyEntries = @ + 1]

\* validateType on the written type of d (TypeCheckType.cpp): a TypeLoc that
\* was validated is not resolved again; resolving a name validates the
\* declaration it refers to; the result is an error when the written type is
\* ill-formed or refers to a declaration that has the error type.
validateTypeStep(m) ==
    LET f == Top(m)
        d == f.d
    IN  IF f.pc = "enter"
        THEN IF m.ds[d].wasValidated THEN Ret(m)
             ELSE IF f.i > Len(vRefs[d]) THEN Goto(m, "after")
             ELSE Call(Goto(m, "after"), Frame("validateDecl", vRefs[d][f.i], "context"))
        ELSE Ret([m EXCEPT
                    !.ds[d].wasValidated = TRUE,
                    !.ds[d].locError =
                        \/ @
                        \/ vFails[d]
                        \/ \E k \in f.i..Len(vRefs[d]) : m.ds[vRefs[d][k]].type = "Error"])

\* setBoundVarsTypeError
setBoundVarsTypeError(m, d) ==
    IF hasType(m, d) /\ m.ds[d].type /= "Error" THEN m ELSE SetErrorInvalid(m, d)

\* validatePatternBindingDecl for the pattern binding that declares variable d
validatePatternBindingDeclStep(m) ==
    LET f == Top(m)
        d == f.d
    IN  IF f.pc = "enter"
        THEN IF m.ds[d].patternHasType \/ m.ds[d].pbdBeingTypeChecked THEN Ret(m)
             ELSE Call(Goto(EnterBody([m EXCEPT !.ds[d].pbdBeingTypeChecked = TRUE], d),
                            "after"),
                       Frame("validateType", d, "enter"))
        ELSE LET released == [m EXCEPT !.ds[d].pbdBeingTypeChecked = FALSE,
                                       !.ds[d].patternHasType = TRUE]
             IN  IF m.ds[d].locError
                 THEN Ret(setBoundVarsTypeError(
                            [released EXCEPT !.ds[d].pbdInvalid = TRUE], d))
                 ELSE Ret(computeType(released, d))

\* The inheritance clause of d as far as validateDecl is concerned: the loop
\* over its entries, each validated with the being-type-checked flag set and
\* restored on leaving the scope.
ClauseOf(d) == IF vKind[d] \in {"Class", "Enum"} THEN vRefs[d] ELSE <<>>

checkInheritanceClauseStep(m) ==
    LET f == Top(m)
        d == f.d
    IN  CASE f.pc = "enter" ->
               IF m.ds[d].checkedInheritanceClause THEN Ret(m)
               ELSE Goto([m EXCEPT !.ds[d].checkedInheritanceClause = TRUE], "entry")
          [] f.pc = "entry" ->
               IF f.i > Len(ClauseOf(d)) THEN Ret(m)
               ELSE Call([m EXCEPT !.ds[d].isBeingTypeChecked = TRUE,
                                   !.stack[Len(m.stack)].saved = m.ds[d].isBeingTypeChecked,
                                   !.stack[Len(m.stack)].pc = "restore"],
                         Frame("validateType", d, "enter"))
          [] OTHER ->
               [m EXCEPT !.ds[d].isBeingTypeChecked = f.saved,
                         !.stack[Len(m.stack)].i = f.i + 1,
                         !.stack[Len(m.stack)].pc = "entry"]

\* Mutant: a re-entrant request for a type alias is not stopped.
visitTypeAliasDeclUnguardedStep(m) ==
    LET f == Top(m)
        d == f.d
    IN  IF f.pc = "enter"
        THEN Call(Goto(EnterBody(computeType([m EXCEPT !.ds[d].isBeingTypeChecked = TRUE], d), d),
                       "after"),
                  Frame("validateType", d, "enter"))
        ELSE Ret([(IF m.ds[d].locError THEN SetErrorInvalid(m, d) ELSE m)
                    EXCEPT !.ds[d].isBeingTypeChecked = FALSE])

\* DeclChecker::visitTypeAliasDecl
visitTypeAliasDeclStep(m) ==
    LET f == Top(m)
        d == f.d
    IN  IF f.pc = "enter"
        THEN IF m.ds[d].isBeingTypeChecked
             THEN IF ~m.ds[d].wasValidated
                  THEN Ret(Diagnose([SetErrorInvalid(m, d) EXCEPT
                                        !.ds[d].wasValidated = TRUE,
                                        !.ds[d].locError = TRUE],
                                    "circular_type_alias", d))
                  ELSE Ret(m)
             ELSE Call(Goto(EnterBody(computeType([m EXCEPT !.ds[d].isBeingTypeChecked = TRUE],
                                                  d), d),
                            "after"),
                       Frame("validateType", d, "enter"))
        ELSE Ret([(IF m.ds[d].locError THEN SetErrorInvalid(m, d) ELSE m)
                    EXCEPT !.ds[d].isBeingTypeChecked = FALSE])

\* DeclChecker::visitAssociatedTypeDecl
visitAssociatedTypeDeclStep(m) ==
    LET f == Top(m)
        d == f.d
    IN  CASE f.pc = "enter" ->
               IF m.ds[d].isBeingTypeChecked
               THEN IF ~m.ds[d].invalid
                    THEN Ret(Diagnose(SetErrorInvalid(m, d), "circular_type_alias", d))
                    ELSE Ret(m)
               ELSE Call(Goto(EnterBody([m EXCEPT !.ds[d].isBeingTypeChecked = TRUE], d),
                              "default"),
                         Frame("checkInheritanceClause", d, "enter"))
          [] f.pc = "default" ->
               IF vRefs[d] /= <<>> \/ vFails[d]
               THEN Call(Goto(m, "after"), Frame("validateType", d, "enter"))
               ELSE Goto(m, "after")
          [] OTHER ->
               Ret([m EXCEPT !.ds[d].isBeingTypeChecked = FALSE])

\* The declarations visitProtocolDecl validates for the protocols d inherits:
\* each inherited protocol followed by its members.
RECURSIVE InheritedWork(_, _)
InheritedWork(d, k) ==
    IF k > Len(vRefs[d]) THEN <<>>
    ELSE (IF vKind[vRefs[d][k]] = "Protocol"
          THEN <<vRefs[d][k]>> \o Members(vRefs[d][k])
          ELSE <<>>) \o InheritedWork(d, k + 1)

\* DeclChecker::visitProtocolDecl, first pass
visitProtocolDeclStep(m) ==
    LET f == Top(m)
        d == f.d
        work == InheritedWork(d, 1)
        members == Members(d)
    IN  CASE f.pc = "enter" ->
               Call(Goto([m EXCEPT !.ds[d].isBeingTypeChecked = TRUE], "inherited"),
                    Frame("validateDecl", d, "context"))
          [] f.pc = "inherited" ->
               IF f.i > Len(work)
               THEN [m EXCEPT !.ds[d].isBeingTypeChecked = FALSE,
                              !.stack[Len(m.stack)].i = 1,
                              !.stack[Len(m.stack)].pc = "members"]
               ELSE Call([m EXCEPT !.stack[Len(m.stack)].i = f.i + 1],
                         Frame("validateDecl", work[f.i], "context"))
          [] OTHER ->
               IF f.i > Len(members) THEN Ret(m)
               ELSE LET next == [m EXCEPT !.stack[Len(m.stack)].i = f.i + 1]
                        mem == members[f.i]
                    IN  IF vKind[mem] = "AssociatedType"
                        THEN Call(next, Frame("visitAssociatedTypeDecl", mem, "enter"))
                        ELSE IF vKind[mem] = "TypeAlias"
                        THEN Call(next, Frame("visitTypeAliasDecl", mem, "enter"))
                        ELSE next

\* DeclChecker::visitEnumElementDecl, first pass
visitEnumElementDeclStep(m) ==
    LET f == Top(m)
        d == f.d
        finish == Ret([computeType(m, d) EXCEPT
                          !.ds[d].isBeingTypeChecked = FALSE,
                          !.ds[d].recursiveness =
                              IF @ = "PotentiallyRecursive" THEN "NotRecursive" ELSE @])
    IN  CASE f.pc = "enter" ->
               IF hasType(m, d) THEN Ret(m)
               ELSE LET set == EnterBody([m EXCEPT !.ds[d].isBeingTypeChecked = TRUE], d)
                    IN  IF m.ds[d].recursiveness = "NotRecursive"
                        THEN LET rec == [set EXCEPT !.ds[d].recursiveness = "PotentiallyRecursive"]
                             IN  IF vRefs[d] /= <<>> \/ vFails[d]
                                 THEN Call(Goto(rec, "payload"), Frame("validateType", d, "enter"))
                                 ELSE Goto(rec, "finish")
                        ELSE IF m.ds[d].recursiveness = "PotentiallyRecursive"
                        THEN Goto([set EXCEPT !.ds[d].recursiveness = "Recursive"], "finish")
                        ELSE Goto(set, "finish")
          [] f.pc = "payload" ->
               IF m.ds[d].locError
               THEN Ret(SetErrorInvalid(m, d))
               ELSE Goto(m, "finish")
          [] OTHER -> finish

\* TypeChecker::validateExtension and checkExtensionGenericParams.  The first
\* reference of an extension is the nominal type it extends; the others are
\* the names its generic signature mentions.
validateExtensionStep(m) ==
    LET f == Top(m)
        d == f.d
        nominal == vRefs[d][1]
        generic == vKind[nominal] = "Protocol" \/ HasGenericParams(nominal)
    IN  CASE f.pc = "enter" ->
               LET req == [m EXCEPT !.ds[d].requested = TRUE]
               IN  IF m.ds[d].validated THEN Ret(req)
                   ELSE LET val == [req EXCEPT !.ds[d].validated = TRUE]
                        IN  IF m.ds[d].invalid \/ ~generic THEN Ret(val)
                            ELSE IF vKind[nominal] = "Protocol" THEN Goto(val, "generic")
                            ELSE Call(Goto(val, "generic"),
                                      Frame("validateDecl", nominal, "context"))
          [] f.pc = "generic" ->
               IF m.ds[nominal].type = "Error"
               THEN Ret(m)
               ELSE [m EXCEPT !.ds[d].isBeingTypeChecked = TRUE,
                              !.stack[Len(m.stack)].i = 2,
                              !.stack[Len(m.stack)].pc = "signature"]
          [] f.pc = "signature" ->
               IF f.i > Len(vRefs[d])
               THEN Ret([m EXCEPT !.ds[d].isBeingTypeChecked = FALSE,
                                  !.ds[d].invalid = @ \/ vFails[d]])
               ELSE Call([m EXCEPT !.stack[Len(m.stack)].i = f.i + 1],
                         Frame("validateDecl", vRefs[d][f.i], "context"))
          [] OTHER -> Ret(m)

\* Mutant: the context of a declaration is not validated first.
validateDeclContextSkipped(m) ==
    Goto([m EXCEPT !.ds[Top(m).d].requested = TRUE], "kind")

\* validateDecl, lines 5612-5627: validate the context first.
validateDeclContext(m) ==
    LET f == Top(m)
        d == f.d
        c == vCtx[d]
        req == [m EXCEPT !.ds[d].requested = TRUE]
    IN  IF vKind[d] /= "GenericTypeParam" /\ c /= 0
        THEN IF m.ds[c].isBeingTypeChecked THEN Ret(req)
             ELSE IF vKind[c] \in NominalKinds
             THEN Call(Goto(req, "kind"), Frame("validateDecl", c, "context"))
             ELSE Call(Goto(req, "kind"), Frame("validateExtension", c, "enter"))
        ELSE Goto(req, "kind")

\* Every generic parameter of the nominal type gets its archetype.
SetArchetypes(m, c, kinds) ==
    [m EXCEPT !.ds = [d \in Decls |->
                        IF vCtx[d] = c /\ vKind[d] \in kinds
                        THEN [m.ds[d] EXCEPT !.archetype = TRUE,
                                             !.type = IF vKind[d] = "AssociatedType" /\ @ = "none"
                                                      THEN "T" ELSE @]
                        ELSE m.ds[d]]]

\* validateDecl, lines 5881-5895
validateDeclVarPattern(m, d) ==
    IF m.ds[d].pbdInvalid \/ ~m.ds[d].patternHasType
    THEN RetValidated(setBoundVarsTypeError([m EXCEPT !.ds[d].patternHasType = TRUE], d), d)
    ELSE Goto(m, "varAttrs")

\* Mutant: the attribute and override checks of a variable are not guarded
\* by didEarlyAttrValidation.
validateDeclVarAttrsUnguarded(m, d) ==
    LET early == [m EXCEPT !.ds[d].didEarlyAttrValidation = TRUE]
    IN  Goto(IF vOverride[d]
             THEN Diagnose(early, "property_does_not_override", d)
             ELSE early,
             "done")

\* validateDecl, lines 5927-6006: checkDeclAttributesEarly records that the
\* early attribute validation was done; a property with an override attribute
\* that overrides nothing is diagnosed.
validateDeclVarAttrs(m, d) ==
    IF ~m.ds[d].didEarlyAttrValidation
    THEN LET early == [m EXCEPT !.ds[d].didEarlyAttrValidation = TRUE]
         IN  Goto(IF vOverride[d]
                  THEN Diagnose(early, "property_does_not_override", d)
                  ELSE early,
                  "done")
    ELSE Goto(m, "done")

\* validateDecl, lines 5629-6034: the kind-specific part.
validateDeclKind(m0) ==
    LET f == Top(m0)
        d == f.d
        c == vCtx[d]
        m == [m0 EXCEPT !.ds[d].kindReached = TRUE,
                        !.ds[d].ctxStartedFirst = @ /\ (c = 0 \/ m0.ds[c].requested)]
    IN  CASE vKind[d] = "TypeAlias" ->
               LET typed == IF hasType(m, d) THEN m ELSE computeType(m, d)
               IN  IF ~m.ds[d].wasValidated
                   THEN Call(Goto(typed, "done"), Frame("visitTypeAliasDecl", d, "enter"))
                   ELSE Goto(typed, "done")
          [] vKind[d] = "AssociatedType" ->
               IF ~f.rtp \/ m.ds[d].archetype
               THEN Call(Goto(m, "computeType"), Frame("visitAssociatedTypeDecl", d, "enter"))
               ELSE Call(Goto(m, "computeType"), Frame("visitProtocolDecl", c, "enter"))
          [] vKind[d] = "GenericTypeParam" ->
               IF ~f.rtp \/ m.ds[d].archetype
               THEN Goto(m, "done")
               ELSE Call(Goto(m, "done"), Frame("validateDecl", c, "context"))
          [] vKind[d] \in {"Class", "Enum"} ->
               IF hasType(m, d) THEN RetValidated(m, d)
               ELSE LET typed == SetArchetypes(EnterBody(computeType(m, d), d), d,
                                               {"GenericTypeParam"})
                    IN  IF HasGenericParams(d) /\ vFails[d]
                        THEN RetValidated(typed, d)
                        ELSE Call(Goto(typed, "done"),
                                  Frame("checkInheritanceClause", d, "enter"))
          [] vKind[d] = "Protocol" ->
               IF hasType(m, d) THEN RetValidated(m, d)
               ELSE Call(Goto(EnterBody(computeType(m, d), d), "protocol"),
                         Frame("validateType", d, "enter"))
          [] vKind[d] = "Var" ->
               IF ~hasType(m, d)
               THEN IF m.ds[d].pbdBeingTypeChecked
                    THEN Goto(Diagnose(m, "pattern_used_in_type", d), "varPattern")
                    ELSE Call(Goto(m, "varPattern"),
                              Frame("validatePatternBindingDecl", d, "enter"))
               ELSE Goto(m, "varAttrs")
          [] OTHER ->
               \* EnumElement
               IF hasType(m, d) THEN RetValidated(m, d)
               ELSE Call(Goto(m, "element"), Frame("validateDecl", c, "context"))

\* TypeChecker::validateDecl
validateDeclStep(m) ==
    LET f == Top(m)
        d == f.d
    IN  CASE f.pc = "context" -> validateDeclContext(m)
          [] f.pc = "kind" -> validateDeclKind(m)
          [] f.pc = "computeType" ->
               Goto(IF hasType(m, d) THEN m ELSE computeType(m, d), "done")
          [] f.pc = "protocol" ->
               IF vFails[d] /\ (\E a \in Decls : vCtx[a] = d /\ vKind[a] = "AssociatedType")
               THEN RetValidated(m, d)
               ELSE Goto(SetArchetypes(m, d, {"AssociatedType"}), "done")
          [] f.pc = "varPattern" -> validateDeclVarPattern(m, d)
          [] f.pc = "varAttrs" -> validateDeclVarAttrs(m, d)
          [] f.pc = "element" ->
               Call(Goto(m, "done"), Frame("visitEnumElementDecl", d, "enter"))
          [] OTHER -> RetValidated(m, d)

\* One step of the function on top of the call stack.
Exec(m) ==
    LET fn == Top(m).fn
    IN  CASE fn = "validateDecl" -> validateDeclStep(m)
          [] fn = "validateExtension" -> validateExtensionStep(m)
          [] fn = "validateType" -> validateTypeStep(m)
          [] fn = "validatePatternBindingDecl" -> validatePatternBindingDeclStep(m)
          [] fn = "checkInheritanceClause" -> checkInheritanceClauseStep(m)
          [] fn = "visitTypeAliasDecl" -> visitTypeAliasDeclStep(m)
          [] fn = "visitAssociatedTypeDecl" -> visitAssociatedTypeDeclStep(m)
          [] fn = "visitProtocolDecl" -> visitProtocolDeclStep(m)
          [] OTHER -> visitEnumElementDeclStep(m)

\* A request from outside: validateDecl(d, resolveTypeParams) on an idle checker.
Request(d, rtp) ==
    /\ vStack = <<>>
    /\ vRequests < MaxRequests
    /\ vKind[d] /= "Extension"
    /\ rtp => vKind[d] \in {"AssociatedType", "GenericTypeParam"}
    /\ vStack' = <<[Frame("validateDecl", d, "context") EXCEPT !.rtp = rtp]>>
    /\ vRequests' = vRequests + 1
    /\ vSteps' = 0
    /\ vSnapshot' = IF declState[d].completed
                    THEN [d |-> d, type |-> declState[d].type,
                          invalid |-> declState[d].invalid, diags |-> Len(vDiags),
                          deferred |-> ~declState[d].didEarlyAttrValidation,
                          rtp |-> rtp]
                    ELSE NoSnapshot
    /\ UNCHANGED <<vKind, vCtx, vRefs, vFails, vOverride, vDiags, declState>>

\* The checker runs the function on top of its call stack.
Step ==
    /\ vStack /= <<>>
    /\ LET m == Exec(Machine)
       IN  /\ declState' = m.ds
           /\ vStack' = m.stack
           /\ vDiags' = m.diags
    /\ vSteps' = vSteps + 1
    /\ UNCHANGED <<vKind, vCtx, vRefs, vFails, vOverride, vRequests, vSnapshot>>

InitialDeclState(k) ==
    [type |-> IF k = "GenericTypeParam" THEN "T" ELSE "none",
     invalid |-> FALSE,
     isBeingTypeChecked |-> FALSE,
     checkedInheritanceClause |-> FALSE,
     wasValidated |-> FALSE,
     locError |-> FALSE,
     validated |-> FALSE,
     archetype |-> FALSE,
     didEarlyAttrValidation |-> FALSE,
     pbdBeingTypeChecked |-> FALSE,
     pbdInvalid |-> FALSE,
     patternHasType |-> FALSE,
     recursiveness |-> "NotRecursive",
     requested |-> FALSE,
     kindReached |-> FALSE,
     ctxStartedFirst |-> TRUE,
     completed |-> FALSE,
     bodyEntries |-> 0]

\* The declarations a written type of a declaration of kind k may name.
RefTargets(k) ==
    {d \in Decls : vKind[d] \in TypeKinds \/ (k = "Var" /\ vKind[d] = "Var")}

\* Contexts are declared before their members and have a kind that can
\* contain the member.
ContextFits(d) ==
    LET k == vKind[d]
        c == vCtx[d]
        ck == IF c = 0 THEN "File" ELSE vKind[c]
    IN  /\ c < d
        /\ CASE k \in {"Class", "Enum"} -> ck \in {"File", "Class", "Enum"}
             [] k \in {"Protocol", "Extension"} -> ck = "File"
             [] k = "TypeAlias" -> ck \in {"Class", "Enum", "Protocol", "Extension"}
             [] k = "AssociatedType" -> ck = "Protocol"
             [] k = "GenericTypeParam" -> ck \in {"Class", "Enum"}
             [] k = "EnumElement" -> ck = "Enum"
             [] OTHER -> ck \in {"File", "Class", "Enum", "Protocol", "Extension"}

\* The written types of a declaration name declarations they can name.
ReferencesFit(d) ==
    LET k == vKind[d]
    IN  /\ \A i \in 1..Len(vRefs[d]) : vRefs[d][i] \in RefTargets(k)
        /\ IF k = "Extension"
           THEN /\ Len(vRefs[d]) >= 1
                /\ vKind[vRefs[d][1]] \in NominalKinds
           ELSE Len(vRefs[d]) <= 1
        /\ k = "GenericTypeParam" => vRefs[d] = <<>>

\* The remaining inputs are used only where the code reads them.
WellFormed(d) ==
    LET k == vKind[d]
        c == vCtx[d]
        ck == IF c = 0 THEN "File" ELSE vKind[c]
    IN  /\ vFails[d] => CASE k \in {"Class", "Enum"} -> HasGenericParams(d)
                           [] k = "Protocol" ->
                                \E a \in Decls : vCtx[a] = d /\ vKind[a] = "AssociatedType"
                           [] k = "Extension" ->
                                \/ vKind[vRefs[d][1]] = "Protocol"
                                \/ HasGenericParams(vRefs[d][1])
                           [] k = "GenericTypeParam" -> FALSE
                           [] OTHER -> TRUE
        /\ vOverride[d] => k = "Var" /\ ck = "Class"

RefLists == UNION {[1..n -> Decls] : n \in 0..2}

InitValidate ==
    /\ vKind \in [Decls -> VKinds]
    /\ vCtx \in [Decls -> 0..NumDecls]
    /\ \A d \in Decls : ContextFits(d)
    /\ vRefs \in [Decls -> RefLists]
    /\ \A d \in Decls : ReferencesFit(d)
    /\ vFails \in [Decls -> BOOLEAN]
    /\ vOverride \in [Decls -> BOOLEAN]
    /\ \A d \in Decls : WellFormed(d)
    /\ declState = [d \in Decls |-> InitialDeclState(vKind[d])]
    /\ vStack = <<>>
    /\ vDiags = <<>>
    /\ vRequests = 0
    /\ vSteps = 0
    /\ vSnapshot = NoSnapshot
    /\ CircUnused
    /\ EnumUnused
    /\ InheritUnused
    /\ OverrideUnused

NextValidate ==
    /\ \/ \E d \in Decls, rtp \in BOOLEAN : Request(d, rtp)
       \/ Step
    /\ UNCHANGED <<circVars, enumVars, inheritVars, overrideVars, reentrantVars>>

SpecValidate == InitValidate /\ [][NextValidate]_vars

(***************************************************************************)
(* DeclChecker::checkOverrides and recordOverride for one member of a      *)
(* class.  The member is a method or a property; the superclass members    *)
(* that share its base name are listed in the order in which lookupMember  *)
(* returns them.  What a comparison of types yields is part of the         *)
(* description of a superclass member (ty): "equal" when the types are     *)
(* identical, "subtype" when canOverride holds, "iuo" when it holds and    *)
(* the types differ in the kind of optional only, "none" otherwise.        *)
(* Diagnostics that neither end a call nor touch an attribute or a link    *)
(* (ownership, accessibility, throws, availability, base attributes) are   *)
(* left out.                                                               *)
(***************************************************************************)
Bases == 1..NumBase

LabelLists == {<<>>, <<"a">>, <<"b">>, <<"a", "b">>}

\* A diagnostic located at the member ("decl"), at one of its accessors, or
\* at superclass member idx ("base").
ODiag(id, who, idx) == [id |-> id, who |-> who, idx |-> idx]

\* DeclAttributes::hasAttribute<OverrideAttr>(): an invalid attribute is not
\* found.
hasOverrideAttr(attr) == attr = "valid"

isObjC(d) == d.sel /= "none"

\* The fields of the member and of its accessors that resolution changes.
OState ==
    [overridden |-> oOverridden, attr |-> oAttr, accAttr |-> oAccessorAttr,
     accLink |-> oAccessorLink, diags |-> oDiags, lookups |-> 0,
     required |-> oRequired]

ODiagnose(st, id, who, idx) == [st EXCEPT !.diags = Append(@, ODiag(id, who, idx))]

\* makeInvalidOverrideAttr
makeInvalidOverrideAttr(st) ==
    [st EXCEPT !.attr = "invalid",
               !.accAttr = [k \in AccessorKinds |->
                               IF k \in {"getter", "setter"} /\ k \in oDecl.accessors
                               THEN "invalid" ELSE st.accAttr[k]]]

\* Mutant: the number of argument labels is not compared.
areOverrideCompatibleSimpleIgnoresLabels(decl, parentDecl) ==
    decl.kind \in {"Func", "Var"} => decl.static = parentDecl.static

\* areOverrideCompatibleSimple
areOverrideCompatibleSimple(decl, parentDecl) ==
    /\ Len(decl.labels) = Len(parentDecl.labels)
    /\ decl.kind \in {"Func", "Var"} => decl.static = parentDecl.static

\* TypeChecker::lookupMember in the superclass: by the full name of the
\* member, or by its base name alone once the lookup is retried.
lookupMember(b, retried) ==
    \/ retried
    \/ oDecl.simple
    \/ ~oBase[b].simple /\ oBase[b].labels = oDecl.labels

\* Both are Objective-C members, and they are methods or initializers with
\* the same selector or subscripts of the same Objective-C subscript kind.
objCMatch(b) ==
    /\ isObjC(oBase[b]) /\ isObjC(oDecl)
    /\ oDecl.kind /= "Var"
    /\ oDecl.sel = oBase[b].sel

AddMatch(acc, b, exact) ==
    [acc EXCEPT !.matches = Append(@, [decl |-> b, exact |-> exact]),
                !.hadExactMatch = @ \/ exact]

\* The body of the loop over the members that the lookup found.
MatchMember(acc, b) ==
    LET parentDecl == oBase[b]
    IN  IF parentDecl.invalid THEN acc
        ELSE IF parentDecl.kind /= oDecl.kind THEN acc
        ELSE IF ~parentDecl.classContext THEN acc
        ELSE IF ~areOverrideCompatibleSimple(oDecl, parentDecl) THEN acc
        ELSE IF parentDecl.ty = "equal" THEN AddMatch(acc, b, TRUE)
        ELSE IF parentDecl.kind = "Var" THEN AddMatch(acc, b, FALSE)
        ELSE IF parentDecl.ty \in {"subtype", "iuo"} THEN AddMatch(acc, b, objCMatch(b))
        ELSE IF objCMatch(b)
        THEN [acc EXCEPT
                !.st = makeInvalidOverrideAttr(
                          ODiagnose(ODiagnose(acc.st,
                                              IF oDecl.kind = "Subscript"
                                              THEN "override_objc_type_mismatch_subscript"
                                              ELSE "override_objc_type_mismatch_method",
                                              "decl", 0),
                                    "overridden_here_with_type", "base", b)),
                !.returned = TRUE]
        ELSE acc

\* The loop over the members b..NumBase; it ends early when a mismatch of
\* Objective-C methods was diagnosed.
RECURSIVE MatchMembers(_, _, _)
MatchMembers(acc, b, retried) ==
    IF b > NumBase \/ acc.returned THEN acc
    ELSE MatchMembers(IF lookupMember(b, retried) THEN MatchMember(acc, b) ELSE acc,
                      b + 1, retried)

\* Mutant: the first match is kept, whether it is exact or not.
RemainingMatchesKeepsFirst(acc) ==
    IF acc.matches = <<>> THEN <<>> ELSE <<acc.matches[1]>>

\* The matches that are left once an exact match has thrown away the others.
RemainingMatches(acc) ==
    LET IsExact(m) == m.exact
    IN  IF acc.hadExactMatch THEN SelectSeq(acc.matches, IsExact) ELSE acc.matches

\* Mutant: the base setter is taken to be accessible from everywhere.
isSetterAccessibleFromAnywhere(b) == TRUE

\* baseASD->isSetterAccessibleFrom(overridingASD->getDeclContext())
isSetterAccessibleFrom(b) == oBase[b].setterAccessible

\* The lambda recordAccessorOverride of recordOverride, with the call of
\* recordOverride for the accessor that it ends in.
recordAccessorOverride(st, accessor, b) ==
    IF accessor \notin oBase[b].accessors THEN st
    ELSE IF accessor \notin oDecl.accessors THEN st
    ELSE IF accessor \in {"setter", "materializeForSet"} /\ ~isSetterAccessibleFrom(b) THEN st
    ELSE LET attributed == [st EXCEPT !.accAttr[accessor] = "valid"]
         IN  IF /\ oBase[b].inExtension \/ oDecl.inExtension
                /\ ~isObjC(oBase[b])
             THEN ODiagnose(ODiagnose(attributed, "override_decl_extension", accessor, 0),
                            "overridden_here", "base", b)
             ELSE [attributed EXCEPT !.accLink[accessor] = b]

\* Mutant: every overridden declaration requires the keyword.
overrideRequiresKeywordAlways(overridden) == TRUE

\* overrideRequiresKeyword
overrideRequiresKeyword(overridden) ==
    IF overridden.kind = "Constructor"
    THEN overridden.designated /\ ~overridden.required
    ELSE TRUE

\* recordOverride for the member itself, with access control enabled (the
\* default of LangOpts.EnableAccessControl).
recordOverride(st, b) ==
    LET base == oBase[b]
        isStorage == oDecl.kind \in {"Var", "Subscript"}
        Fail(id) == [st |-> ODiagnose(ODiagnose(st, id, "decl", 0),
                                      IF isStorage /\ id /= "override_decl_extension"
                                      THEN "property_override_here"
                                      ELSE "overridden_here", "base", b),
                     error |-> TRUE]
        baseIsSettable == base.settable /\ isSetterAccessibleFrom(b)
    IN  IF isStorage /\ oDecl.storage = "stored"
        THEN Fail("override_with_stored_property")
        ELSE IF isStorage /\ oDecl.storage = "observed" /\ ~baseIsSettable
        THEN Fail("observing_readonly_property")
        ELSE IF isStorage /\ baseIsSettable /\ ~oDecl.settable
        THEN Fail("override_mutable_with_readonly_property")
        ELSE IF oDecl.kind = "Var" /\ base.isLet
        THEN Fail("override_let_property")
        ELSE IF (base.inExtension \/ oDecl.inExtension) /\ ~isObjC(base)
        THEN Fail("override_decl_extension")
        ELSE LET keyword == IF ~hasOverrideAttr(st.attr) /\ overrideRequiresKeyword(base)
                            THEN [ODiagnose(ODiagnose(st, "missing_override", "decl", 0),
                                            "overridden_here", "base", b)
                                    EXCEPT !.attr = "valid"]
                            ELSE st
                 linked == [keyword EXCEPT !.overridden = b]
             IN  [st |-> IF isStorage
                         THEN recordAccessorOverride(
                                 recordAccessorOverride(
                                    recordAccessorOverride(linked, "getter", b),
                                    "setter", b),
                                 "materializeForSet", b)
                         ELSE linked,
                  error |-> FALSE]

\* Mutant: no difference between the types is silent.
IsSilentDifferenceNever(matchDecl) == FALSE

\* IsSilentDifference: the types of the two properties differ only in
\* Optional against ImplicitlyUnwrappedOptional.
IsSilentDifference(matchDecl) == matchDecl.ty = "iuo"

\* checkOverrides, the case of a single match.
SingleMatch(st, b) ==
    LET matchDecl == oBase[b]
        named == IF oDecl.labels /= matchDecl.labels
                 THEN ODiagnose(st, "override_argument_name_mismatch", "decl", 0)
                 ELSE st
        Fail(id, note) == [st |-> ODiagnose(ODiagnose(named, id, "decl", 0),
                                            note, "base", b),
                           error |-> TRUE]
    IN  IF matchDecl.ty = "equal" \/ oDecl.kind \in {"Func", "Constructor"}
        THEN recordOverride(named, b)
        ELSE IF oDecl.kind = "Subscript"
        THEN IF matchDecl.hasSetter
             THEN Fail("override_mutable_covariant_subscript", "subscript_override_here")
             ELSE recordOverride(named, b)
        ELSE IF matchDecl.ty = "none"
        THEN Fail("override_property_type_mismatch", "property_override_here")
        ELSE IF matchDecl.hasSetter /\ ~IsSilentDifference(matchDecl)
        THEN Fail("override_mutable_covariant_property", "property_override_here")
        ELSE recordOverride(named, b)

\* The notes that point at the matches k..n.
RECURSIVE MatchNotes(_, _, _)
MatchNotes(matches, k, retried) ==
    IF k > Len(matches) THEN <<>>
    ELSE <<ODiag(IF retried THEN "overridden_near_match_here" ELSE "overridden_here",
                 "base", matches[k].decl)>> \o MatchNotes(matches, k + 1, retried)

\* Mutant: several matches are settled in favour of the first.
MultipleMatchesTakesFirst(st, matches, retried) == SingleMatch(st, matches[1].decl)

\* checkOverrides, the case of several matches.
MultipleMatches(st, matches, retried) ==
    [st |-> [st EXCEPT !.diags =
                 @ \o <<ODiag(IF retried THEN "override_multiple_decls_arg_mismatch"
                              ELSE "override_multiple_decls_base", "decl", 0)>>
                   \o MatchNotes(matches, 1, retried)],
     error |-> TRUE]

\* Mutant: an empty lookup is never repeated.
GivesUpAlways(st, retried) == TRUE

\* No match was found: whether checkOverrides returns instead of looking
\* again by base name.
GivesUp(st, retried) ==
    \/ retried
    \/ oDecl.simple
    \/ Len(oDecl.labels) = 0
    \/ ~hasOverrideAttr(st.attr)

\* checkOverrides from the label retry on.
RECURSIVE checkOverridesFrom(_, _)
checkOverridesFrom(st, retried) ==
    LET looked == [st EXCEPT !.lookups = @ + 1]
        acc == MatchMembers([st |-> looked, matches |-> <<>>, hadExactMatch |-> FALSE,
                             returned |-> FALSE], 1, retried)
    IN  IF acc.returned THEN [st |-> acc.st, error |-> TRUE]
        ELSE IF acc.matches = <<>>
        THEN IF GivesUp(looked, retried)
             THEN [st |-> looked, error |-> FALSE]
             ELSE checkOverridesFrom(looked, TRUE)
        ELSE IF Len(RemainingMatches(acc)) = 1
        THEN SingleMatch(acc.st, RemainingMatches(acc)[1].decl)
        ELSE MultipleMatches(acc.st, RemainingMatches(acc), retried)

\* Mutant: a call for a member that has a link clears the link.
checkOverridesClearsLink(st) ==
    IF st.overridden /= 0 THEN [st |-> [st EXCEPT !.overridden = 0], error |-> FALSE]
    ELSE checkOverridesFrom(st, FALSE)

\* checkOverrides for the member itself
checkOverrides(st) ==
    IF oDecl.invalid \/ st.overridden /= 0 THEN [st |-> st, error |-> FALSE]
    ELSE IF ~oDecl.hasSuperclass THEN [st |-> st, error |-> FALSE]
    ELSE checkOverridesFrom(st, FALSE)

Commit(st, error) ==
    /\ oOverridden' = st.overridden
    /\ oAttr' = st.attr
    /\ oAccessorAttr' = st.accAttr
    /\ oAccessorLink' = st.accLink
    /\ oDiags' = st.diags
    /\ oLookups' = st.lookups
    /\ oRequired' = st.required
    /\ oError' = IF error THEN "true" ELSE "false"

\* The complaint about an override attribute on a method, property or
\* subscript that overrides nothing.
DoesNotOverride(st) ==
    IF hasOverrideAttr(st.attr) /\ st.overridden = 0
    THEN [ODiagnose(st, IF oDecl.kind = "Var" THEN "property_does_not_override"
                        ELSE IF oDecl.kind = "Subscript" THEN "subscript_does_not_override"
                        ELSE "method_does_not_override", "decl", 0)
            EXCEPT !.attr = "invalid"]
    ELSE st

\* visitConstructorDecl once checkOverrides has returned false: the
\* complaints about the override attribute of an initializer.
InitializerOverrideAttr(st) ==
    LET b == st.overridden
    IN  IF ~hasOverrideAttr(st.attr) THEN st
        ELSE IF b = 0
        THEN [ODiagnose(st, "initializer_does_not_override", "decl", 0)
                EXCEPT !.attr = "invalid"]
        ELSE IF overrideRequiresKeyword(oBase[b]) THEN st
        ELSE IF oBase[b].required
        THEN ODiagnose(IF st.required
                       THEN ODiagnose(st, "required_initializer_override_keyword", "decl", 0)
                       ELSE [ODiagnose(st, "required_initializer_override_wrong_keyword",
                                       "decl", 0) EXCEPT !.required = TRUE],
                       "overridden_required_initializer_here", "base", b)
        ELSE ODiagnose(ODiagnose(st, "initializer_does_not_override", "decl", 0),
                       "convenience_init_override_here", "base", b)

\* Mutant: the failabilities are compared the other way round.
InitializerFailabilityReversed(st) ==
    LET b == st.overridden
    IN  IF ~oDecl.failable /\ b /= 0 /\ oBase[b].failable
        THEN ODiagnose(ODiagnose(st, "failable_initializer_override", "decl", 0),
                       "nonfailable_initializer_override_here", "base", b)
        ELSE st

\* visitConstructorDecl once checkOverrides has returned false: a failable
\* initializer cannot override a non-failable one.
InitializerFailability(st) ==
    LET b == st.overridden
    IN  IF oDecl.failable /\ b /= 0 /\ ~oBase[b].failable
        THEN ODiagnose(ODiagnose(st, "failable_initializer_override", "decl", 0),
                       "nonfailable_initializer_override_here", "base", b)
        ELSE st

\* visitConstructorDecl: an initializer that overrides a required
\* initializer must be marked required.
RequiredInitializer(st) ==
    LET b == st.overridden
    IN  IF ~st.required /\ b /= 0 /\ oBase[b].required
        THEN [ODiagnose(ODiagnose(st, "required_initializer_missing_keyword", "decl", 0),
                        "overridden_required_initializer_here", "base", b)
                EXCEPT !.required = TRUE]
        ELSE st

\* visitFuncDecl for a method, validateDecl for a property,
\* visitSubscriptDecl, visitConstructorDecl: checkOverrides, then the
\* checks that follow it when it returns false.
VisitDecl ==
    /\ ~oVisited
    /\ oVisited' = TRUE
    /\ IF oDecl.kind = "Func" /\ oDecl.invalid
       THEN UNCHANGED <<oError, oOverridden, oAttr, oAccessorAttr, oAccessorLink, oDiags,
                        oLookups, oRequired>>
       ELSE LET r == checkOverrides(OState)
            IN  IF oDecl.kind = "Constructor"
                THEN Commit(RequiredInitializer(
                               IF r.error THEN r.st
                               ELSE InitializerFailability(InitializerOverrideAttr(r.st))),
                            r.error)
                ELSE Commit(IF r.error THEN r.st ELSE DoesNotOverride(r.st), r.error)
    /\ UNCHANGED <<oDecl, oBase, oResolves>>

\* swift::checkOverrides, called on the member from outside the checker.
Resolve ==
    /\ oResolves < MaxResolves
    /\ oResolves' = oResolves + 1
    /\ LET r == checkOverrides(OState)
       IN  Commit(r.st, r.error)
    /\ UNCHANGED <<oDecl, oBase, oVisited>>

\* visitFuncDecl for an accessor of the member: checkOverrides leaves
\* accessors to their storage and returns false.
VisitAccessor(accessor) ==
    /\ accessor \in oDecl.accessors
    /\ LET st == OState
       IN  IF hasOverrideAttr(st.accAttr[accessor]) /\ st.accLink[accessor] = 0
           THEN Commit([ODiagnose(st, "method_does_not_override", accessor, 0)
                          EXCEPT !.accAttr[accessor] = "invalid"], FALSE)
           ELSE Commit(st, FALSE)
    /\ UNCHANGED <<oDecl, oBase, oVisited, oResolves>>

\* A method of a class with a superclass.
PlainFunc(labels, attr, sel) ==
    [kind |-> "Func", labels |-> labels, simple |-> FALSE, attr |-> attr,
     static |-> FALSE, sel |-> sel, inExtension |-> FALSE, invalid |-> FALSE,
     hasSuperclass |-> TRUE, storage |-> "none", settable |-> FALSE,
     accessors |-> {}, failable |-> FALSE, required |-> FALSE]

FuncDecls ==
    {PlainFunc(l, a, s) : l \in LabelLists, a \in BOOLEAN, s \in {"none", "s1"}}
    \cup {[PlainFunc(<<"a">>, TRUE, "none") EXCEPT !.static = TRUE],
          [PlainFunc(<<"a">>, TRUE, "none") EXCEPT !.inExtension = TRUE],
          [PlainFunc(<<"a">>, TRUE, "none") EXCEPT !.invalid = TRUE],
          [PlainFunc(<<"a">>, TRUE, "none") EXCEPT !.hasSuperclass = FALSE]}

\* A property of a class with a superclass: stored, stored with observers,
\* computed with a setter, or computed without one.
PlainVar(attr, storage) ==
    [kind |-> "Var", labels |-> <<>>, simple |-> TRUE, attr |-> attr,
     static |-> FALSE, sel |-> "none", inExtension |-> FALSE, invalid |-> FALSE,
     hasSuperclass |-> TRUE, storage |-> storage,
     settable |-> storage /= "computedReadOnly",
     accessors |-> IF storage = "stored" THEN {}
                   ELSE IF storage = "computedReadOnly" THEN {"getter"}
                   ELSE AccessorKinds,
     failable |-> FALSE, required |-> FALSE]

VarDecls ==
    {PlainVar(a, s) : a \in BOOLEAN,
                      s \in {"stored", "observed", "computed", "computedReadOnly"}}
    \cup {[PlainVar(TRUE, "computed") EXCEPT !.inExtension = TRUE],
          [PlainVar(TRUE, "computed") EXCEPT !.static = TRUE]}

\* A method of the superclass.
BaseFunc(labels, ty, sel) ==
    [kind |-> "Func", labels |-> labels, simple |-> FALSE, static |-> FALSE,
     sel |-> sel, inExtension |-> FALSE, invalid |-> FALSE, classContext |-> TRUE,
     ty |-> ty, isLet |-> FALSE, settable |-> FALSE, setterAccessible |-> FALSE,
     hasSetter |-> FALSE, accessors |-> {}, failable |-> FALSE,
     designated |-> FALSE, required |-> FALSE]

BaseFuncs ==
    {BaseFunc(l, t, s) : l \in LabelLists, t \in {"equal", "subtype", "none"},
                         s \in {"none", "s1"}}
    \cup {[BaseFunc(<<"a">>, "equal", "none") EXCEPT !.static = TRUE],
          [BaseFunc(<<"a">>, "equal", "none") EXCEPT !.inExtension = TRUE],
          [BaseFunc(<<"a">>, "equal", "none") EXCEPT !.invalid = TRUE],
          [BaseFunc(<<"a">>, "equal", "none") EXCEPT !.classContext = FALSE]}

\* A property of the superclass: a let, a computed property without a
\* setter, one with a setter, one whose setter is not accessible from the
\* subclass, or a stored var, which gets its accessors when it is overridden.
BaseVar(ty, mutability) ==
    [kind |-> "Var", labels |-> <<>>, simple |-> TRUE, static |-> FALSE,
     sel |-> "none", inExtension |-> FALSE, invalid |-> FALSE, classContext |-> TRUE,
     ty |-> ty, isLet |-> mutability = "let",
     settable |-> mutability \in {"settable", "privateSetter", "storedVar"},
     setterAccessible |-> mutability \in {"settable", "storedVar"},
     hasSetter |-> mutability \in {"settable", "privateSetter"},
     accessors |-> IF mutability \in {"let", "readOnly"} THEN {"getter"}
                   ELSE AccessorKinds,
     failable |-> FALSE, designated |-> FALSE, required |-> FALSE]

BaseVars ==
    {BaseVar(t, m) : t \in {"equal", "subtype", "iuo", "none"},
                     m \in {"let", "readOnly", "settable", "privateSetter", "storedVar"}}
    \cup {[BaseVar("equal", "settable") EXCEPT !.inExtension = TRUE],
          [BaseVar("equal", "settable") EXCEPT !.inExtension = TRUE, !.sel = "s1"],
          [BaseVar("equal", "settable") EXCEPT !.static = TRUE]}

\* A computed subscript of a class with a superclass, with or without a
\* setter.
PlainSubscript(attr, storage) ==
    [PlainVar(attr, storage) EXCEPT !.kind = "Subscript", !.labels = <<"a">>,
                                    !.simple = FALSE]

SubscriptDecls == {PlainSubscript(a, s) : a \in BOOLEAN, s \in {"computed", "computedReadOnly"}}

\* A subscript of the superclass, with or without a setter.
BaseSubscript(ty, mutability) ==
    [BaseVar(ty, mutability) EXCEPT !.kind = "Subscript", !.labels = <<"a">>,
                                    !.simple = FALSE]

BaseSubscripts ==
    {BaseSubscript(t, m) : t \in {"equal", "subtype", "iuo", "none"},
                           m \in {"readOnly", "settable"}}

\* An initializer of a class with a superclass: with or without an override
\* attribute, failable or not, with or without a required attribute.
PlainCtor(attr, failable, required) ==
    [PlainFunc(<<"a">>, attr, "none") EXCEPT !.kind = "Constructor",
                                             !.failable = failable,
                                             !.required = required]

CtorDecls == {PlainCtor(a, f, r) : a \in BOOLEAN, f \in BOOLEAN, r \in BOOLEAN}

\* An initializer of the superclass: its type once the optionality of the
\* result is dropped, its failability, whether it is a designated
\* initializer, whether it is required.  Factory initializers, which the
\* loop over the members skips, are left out.
BaseCtor(ty, failable, designated, required) ==
    [BaseFunc(<<"a">>, ty, "none") EXCEPT !.kind = "Constructor",
                                          !.failable = failable,
                                          !.designated = designated,
                                          !.required = required]

BaseCtors ==
    {BaseCtor(t, f, d, r) : t \in {"equal", "subtype"}, f \in BOOLEAN, d \in BOOLEAN,
                            r \in BOOLEAN}

\* The superclass members a lookup for the member can find: members of its
\* kind, and one of another kind.
BaseMembers(declKind) ==
    IF declKind = "Func" THEN BaseFuncs \cup {BaseVar("equal", "settable")}
    ELSE IF declKind = "Var" THEN BaseVars \cup {BaseFunc(<<>>, "equal", "none")}
    ELSE IF declKind = "Subscript"
    THEN BaseSubscripts \cup {BaseFunc(<<"a">>, "equal", "none")}
    ELSE BaseCtors \cup {BaseFunc(<<"a">>, "equal", "none")}

InitOverride ==
    /\ oDecl \in FuncDecls \cup VarDecls \cup SubscriptDecls \cup CtorDecls
    /\ oBase \in [Bases -> BaseMembers(oDecl.kind)]
    /\ oVisited = FALSE
    /\ oResolves = 0
    /\ oError = "none"
    /\ oOverridden = 0
    /\ oAttr = IF oDecl.attr THEN "valid" ELSE "none"
    /\ oAccessorAttr = [k \in AccessorKinds |-> "none"]
    /\ oAccessorLink = [k \in AccessorKinds |-> 0]
    /\ oDiags = <<>>
    /\ oLookups = 0
    /\ oRequired = oDecl.required
    /\ CircUnused
    /\ EnumUnused
    /\ InheritUnused
    /\ ValidateUnused

NextOverride ==
    /\ \/ VisitDecl
       \/ Resolve
       \/ \E accessor \in AccessorKinds : VisitAccessor(accessor)
    /\ UNCHANGED <<circVars, enumVars, inheritVars, validateVars, reentrantVars>>

SpecOverride == InitOverride /\ [][NextOverride]_vars

(***************************************************************************)
(* Claims about the inheritance clause.                                    *)
(***************************************************************************)
\* Entry k validated to a type that is not the error type.
Resolved(cl, k) == ~cl[k].fails /\ cl[k].cat /= "error"

\* The first position of the clause that names the canonical type of entry k.
FirstOccurrence(cl, k) ==
    Min({j \in 1..k : Resolved(cl, j) /\ cl[j].canon = cl[k].canon})

\* Entry k repeats the canonical type of an earlier entry.
Repeated(cl, k) == Resolved(cl, k) /\ FirstOccurrence(cl, k) < k

DuplicateDiagsAt(k) ==
    {n \in 1..Len(iDiags) : iDiags[n].id = "duplicate_inheritance" /\ iDiags[n].at = k}

\* The clause without its repeated occurrences.
RECURSIVE Deduplicated(_, _)
Deduplicated(cl, k) ==
    IF k > Len(cl) THEN <<>>
    ELSE (IF Repeated(cl, k) THEN <<>> ELSE <<cl[k]>>) \o Deduplicated(cl, k + 1)

ClassificationOf(cl) ==
    LET ls == CheckEntries(ClauseLoopStart(iDecl, iImplicit, Len(cl)), iDecl, cl, 1)
    IN  <<ls.superclassTy, ls.allProtocols>>

DuplicateHandled(k) ==
    LET first == FirstOccurrence(iClause, k)
    IN  /\ Cardinality(DuplicateDiagsAt(k)) = 1
        /\ \A n \in DuplicateDiagsAt(k) : iDiags[n].highlight = first
        /\ \A n \in 1..Len(iDiags) :
              (iDiags[n].at = k \/ iDiags[n].highlight = k) => n \in DuplicateDiagsAt(k)
        /\ iEntryInvalid[k]
        /\ DuplicateDiagsAt(first) = {}
        /\ KnownType(iInheritedTypes, iClause[k].canon) = first

ContributesOnce ==
    /\ Len(iAllProtocols) = Cardinality(Range(iAllProtocols))
    /\ \A a, b \in 1..Len(iInheritedTypes) :
          iInheritedTypes[a].canon = iInheritedTypes[b].canon => a = b
    /\ <<iSuperclass, iAllProtocols>> =
          <<IF iDecl \in {"Class", "Enum"}
            THEN ClassificationOf(Deduplicated(iClause, 1))[1] ELSE NoType,
            ClassificationOf(Deduplicated(iClause, 1))[2]>>

\* C10 as stated: in every checked clause, each repeated occurrence of a
\* canonical type gets exactly one duplicate-inheritance diagnostic, located at
\* it and highlighting the first occurrence; it is marked invalid, the first
\* stays recorded, and the type contributes to the classification once.
C10_EveryClause ==
    iChecked =>
        /\ \A k \in 1..Len(iClause) : Repeated(iClause, k) => DuplicateHandled(k)
        /\ ContributesOnce

\* C10 (amended): the statement holds for every clause except that of a
\* protocol extension, which is rejected as a whole with one
\* extension_protocol_inheritance diagnostic before any entry is examined.
C10_DuplicateInheritance ==
    iChecked =>
        IF iDecl = "ProtocolExtension" /\ iClause /= <<>>
        THEN /\ Len(iDiags) = 1
             /\ iDiags[1].id = "extension_protocol_inheritance"
             /\ \A k \in 1..Len(iClause) : ~iEntryInvalid[k]
        ELSE /\ \A k \in 1..Len(iClause) : Repeated(iClause, k) => DuplicateHandled(k)
             /\ ContributesOnce

C10_Witness ==
    /\ iChecked
    /\ iDecl = "Class"
    /\ Len(iClause) = 3
    /\ iClause[1].name = "C1" /\ iClause[2].name = "P1" /\ iClause[3].name = "AliasP1"
    /\ iAllProtocols = <<"P1">>
    /\ iSuperclass = "C1"
    /\ iEntryInvalid = <<FALSE, FALSE, TRUE>>
    /\ iDiags = <<InheritDiag("duplicate_inheritance", 3, 2, "P1", "")>>

(***************************************************************************)
(* Reading the results of the raw-value pass.                              *)
(***************************************************************************)
\* The loop has gone through case i.
Processed(i) == i < eIdx

\* Case i entered the raw-value check (it was neither invalid nor a payload
\* case when the loop reached it).
Entered(i) == ~elts[i].invalid /\ ~elts[i].payload

\* Case i reached the uniqueness check.
Checked(i) == Processed(i) /\ Entered(i) /\ typeCheckedRaw[i]

\* The cases against which a not-unique diagnostic at case k points: the
\* used-here note that follows it.
ReportedAgainst(k) ==
    {enumDiags[u].at : u \in
       {u \in 1..Len(enumDiags) :
          /\ enumDiags[u].id = "enum_raw_value_used_here"
          /\ \E d \in 1..(u - 1) :
               /\ enumDiags[d] = EnumDiag("enum_raw_value_not_unique", k)
               /\ \A e \in (d + 1)..(u - 1) : enumDiags[e].id /= "enum_raw_value_used_here"}}

NotUniqueAt(k) ==
    {d \in 1..Len(enumDiags) : enumDiags[d] = EnumDiag("enum_raw_value_not_unique", k)}

(***************************************************************************)
(* C7.  Integer auto-increment: a case without an explicit raw value gets  *)
(* 0 if no earlier case was given a raw value, otherwise the integer value *)
(* of the nearest earlier case that was given one, plus 1; payload cases   *)
(* and invalid cases are skipped and do not change the sequence.           *)
(***************************************************************************)
\* The earlier cases that count for case i when invalid and payload cases
\* are left out.
EarlierValid(i) ==
    {j \in 1..(i - 1) : ~eltInvalid[j] /\ ~elts[j].payload /\ rawValueExpr[j] /= NoLit}

\* The claim as written, read at the end of the pass.
C7_InvalidCasesDoNotChangeSequence ==
    (EnumDone /\ valueKind = "Integer") =>
        \A i \in Cases :
            (elts[i].lit = NoLit /\ ~eltInvalid[i] /\ ~elts[i].payload) =>
                IF EarlierValid(i) = {}
                THEN rawValueExpr[i] = IntLit(0)
                ELSE LET j == CHOOSE j \in EarlierValid(i) :
                                 \A m \in EarlierValid(i) : m <= j
                     IN  rawValueExpr[j].kind = "Int" =>
                           rawValueExpr[i] = IntLit(IntValue(rawValueExpr[j]) + 1)

\* The earlier cases that entered the raw-value check.
EarlierEntered(i) == {j \in 1..(i - 1) : Entered(j)}

\* As amended: the sequence is carried by every earlier case that entered the
\* check, also by one that the check itself marked invalid; when the nearest
\* such case holds a literal that is not an integer literal the case gets no
\* value, a diagnostic is emitted and the pass stops there.
C7_AutoIncrement ==
    valueKind = "Integer" =>
        \A i \in Cases :
            /\ (Processed(i) /\ ~Entered(i)) => rawValueExpr[i] = elts[i].lit
            /\ ((Processed(i) \/ (eStopped /\ eIdx = i)) /\ Entered(i) /\ elts[i].lit = NoLit) =>
                 IF EarlierEntered(i) = {}
                 THEN rawValueExpr[i] = IntLit(0)
                 ELSE LET j == CHOOSE j \in EarlierEntered(i) :
                                  \A m \in EarlierEntered(i) : m <= j
                      IN  IF rawValueExpr[j].kind = "Int"
                          THEN rawValueExpr[i] = IntLit(IntValue(rawValueExpr[j]) + 1)
                          ELSE /\ rawValueExpr[i] = NoLit
                               /\ eStopped /\ eIdx = i
                               /\ enumDiags[Len(enumDiags)] =
                                    EnumDiag("enum_non_integer_raw_value_auto_increment", i)

\* enum E: Int { case a; case b = 5; case c } has been checked: a=0, b=5, c=6.
C7_Witness ==
    /\ valueKind = "Integer"
    /\ EnumDone
    /\ Len(elts) >= 3
    /\ elts[1].lit = NoLit /\ Entered(1)
    /\ elts[2].lit = IntLit(5)
    /\ elts[3].lit = NoLit /\ Entered(3)
    /\ rawValueExpr[1] = IntLit(0)
    /\ rawValueExpr[2] = IntLit(5)
    /\ rawValueExpr[3] = IntLit(6)

(***************************************************************************)
(* C8.  Integer raw-value uniqueness: when two checked cases hold equal    *)
(* integer raw values, a not-unique diagnostic is emitted at the later     *)
(* case and points back to the first case holding that value; the first    *)
(* occupant stays in the map, so every further equal case is reported      *)
(* against it too.                                                         *)
(***************************************************************************)
IntChecked(i) == Checked(i) /\ rawValueExpr[i].kind = "Int"

\* The first checked case that holds the integer value of case k.
FirstHolder(k) ==
    Min({j \in 1..k : IntChecked(j) /\ IntValue(rawValueExpr[j]) = IntValue(rawValueExpr[k])})

C8_IntegerRawValuesUnique ==
    \A k \in Cases :
        IntChecked(k) =>
            /\ \E m \in 1..Len(uniqueRawValues) :
                 /\ isEqual(uniqueRawValues[m].key, RawValueKey(rawValueExpr[k]))
                 /\ uniqueRawValues[m].sourceElt <= FirstHolder(k)
            /\ IF FirstHolder(k) < k
               THEN /\ Cardinality(NotUniqueAt(k)) = 1
                    /\ \E f \in ReportedAgainst(k) :
                         /\ f <= FirstHolder(k)
                         /\ isEqual(RawValueKey(rawValueExpr[f]), RawValueKey(rawValueExpr[k]))
                    /\ Cardinality(ReportedAgainst(k)) = 1
               ELSE ReportedAgainst(k) \subseteq {f \in 1..(k - 1) : rawValueExpr[f].kind = "Float"}

\* Three checked cases hold the same integer value, the last one by
\* auto-increment or explicitly, and both later ones were reported against
\* the first.
C8_Witness ==
    /\ EnumDone
    /\ \E i, j, k \in Cases :
         /\ i < j /\ j < k
         /\ IntChecked(i) /\ IntChecked(j) /\ IntChecked(k)
         /\ IntValue(rawValueExpr[i]) = IntValue(rawValueExpr[j])
         /\ IntValue(rawValueExpr[j]) = IntValue(rawValueExpr[k])
         /\ ReportedAgainst(j) = {i}
         /\ ReportedAgainst(k) = {i}

(***************************************************************************)
(* C9.  Two floating raw values of one enumeration whose bit patterns      *)
(* differ are never reported as duplicates of each other, even when they   *)
(* compare numerically equal (0.0 and -0.0); two with identical bit        *)
(* patterns always are.                                                    *)
(***************************************************************************)
FloatChecked(i) == Checked(i) /\ rawValueExpr[i].kind = "Float"

C9_FloatsKeyedByBitPattern ==
    \A i, k \in Cases :
        (i < k /\ FloatChecked(i) /\ FloatChecked(k)) =>
            IF rawValueExpr[i].digits /= rawValueExpr[k].digits
            THEN i \notin ReportedAgainst(k)
            ELSE /\ Cardinality(NotUniqueAt(k)) = 1
                 /\ \E f \in ReportedAgainst(k) :
                      isEqual(RawValueKey(rawValueExpr[f]), RawValueKey(rawValueExpr[k]))

\* 0.0, -0.0 and -0.0 again were checked: only the third case was reported,
\* against the second.
C9_Witness ==
    /\ EnumDone
    /\ Len(elts) >= 3
    /\ FloatChecked(1) /\ FloatChecked(2) /\ FloatChecked(3)
    /\ rawValueExpr[1] = FloatLit(0)
    /\ rawValueExpr[2] = FloatLit(32768)
    /\ rawValueExpr[3] = FloatLit(32768)
    /\ NotUniqueAt(2) = {}
    /\ ReportedAgainst(3) = {2}

(***************************************************************************)
(* Cycles of the written graph and the cycles named by the diagnostics.    *)
(***************************************************************************)
Edge(a, b) == b \in clause[a]

\* Simple cycles, each written once, starting at its smallest declaration.
SimpleCycles ==
    {s \in UNION {[1..k -> Nodes] : k \in 1..NumNodes} :
        /\ \A i, j \in DOMAIN s : i /= j => s[i] /= s[j]
        /\ s[1] = Min(Range(s))
        /\ \A i \in DOMAIN s : Edge(s[i], s[(i % Len(s)) + 1])}

\* Rotate a reported cycle so that it starts at its smallest declaration.
Canon(cyc) ==
    LET k == Len(cyc)
        m == CHOOSE i \in 1..k : cyc[i] = Min(Range(cyc))
    IN  [i \in 1..k |-> cyc[((m + i - 2) % k) + 1]]

CycleReports == {i \in 1..Len(circDiags) : circDiags[i].id = "circular"}

Reports(c) == Cardinality({i \in CycleReports : Canon(circDiags[i].cycle) = c})

AllChecksDone == CircIdle /\ started = Nodes

SingleParent == \A n \in Nodes : Cardinality(clause[n]) <= 1

(***************************************************************************)
(* C1.  A top-level checkCircularity call terminates, and when it has      *)
(* returned the path is empty again, no declaration is left in state       *)
(* Checking and every declaration that was visited is Checked.             *)
(* Termination: every step of the traversal strictly decreases the natural *)
(* number CircMeasure.                                                     *)
(***************************************************************************)
RECURSIVE PendingIterations(_)
PendingIterations(fr) ==
    IF fr = <<>> THEN 0
    ELSE (Len(fr[1].inh) - fr[1].i + 1) + 1 + PendingIterations(Tail(fr))

CircMeasure ==
    (Cardinality(Nodes \ started)
       + Cardinality({n \in Nodes : circularity[n] = "Unchecked"})) * (NumNodes + 2)
    + PendingIterations(frames)

C1_Returned ==
    CircIdle => /\ path = <<>>
                /\ \A n \in Nodes : circularity[n] /= "Checking"
                /\ \A n \in visited : circularity[n] = "Checked"
                /\ started \subseteq visited

C1_TopLevelCallTerminates ==
    /\ []C1_Returned
    /\ [][CircMeasure' < CircMeasure /\ CircMeasure' >= 0]_vars

\* A traversal that met a two-declaration cycle behind an acyclic prefix, in
\* a graph with a declaration that has several parents, has returned.
C1_Witness ==
    /\ CircIdle
    /\ \E n \in Nodes : Cardinality(clause[n]) >= 2
    /\ \E i \in CycleReports :
         /\ Len(circDiags[i].cycle) = 2
         /\ \E n \in visited : n \notin Range(circDiags[i].cycle)

Idle == vStack = <<>>

\* The request that just returned was for a declaration whose kind-specific
\* validation had already been reached and left by an earlier request.
RepeatedRequestReturned == Idle /\ vSnapshot.d /= 0

\* The diagnostics emitted since the repeated request was made.
NewDiags == {n \in 1..Len(vDiags) : n > vSnapshot.diags}

SameTypeAndInvalid ==
    /\ declState[vSnapshot.d].type = vSnapshot.type
    /\ declState[vSnapshot.d].invalid = vSnapshot.invalid

\* The diagnostic that validateDecl holds back when the first validation of
\* a variable stops at the early return for a failed pattern.
DeferredOverrideDiag(n) ==
    /\ vKind[vSnapshot.d] = "Var"
    /\ vSnapshot.deferred
    /\ vDiags[n] = [id |-> "property_does_not_override", at |-> vSnapshot.d]

C4_MarkerAlwaysReleased ==
    Idle => \A d \in Decls : ~declState[d].isBeingTypeChecked

\* C4, what the code guarantees: once no validation call is active, no
\* declaration other than an enum case has its being-type-checked flag set.
C4_MarkerReleasedExceptEnumCases ==
    Idle => \A d \in Decls :
                vKind[d] /= "EnumElement" => ~declState[d].isBeingTypeChecked

\* An enum case whose payload type failed to validate is left flagged.
C4_Witness ==
    /\ Idle
    /\ \E d \in Decls :
          /\ vKind[d] = "EnumElement"
          /\ declState[d].invalid
          /\ declState[d].isBeingTypeChecked

\* C5 as stated: whenever the kind-specific validation of a declaration in a
\* nominal type or extension was reached, validateDecl or validateExtension
\* had been invoked on that context before.
C5_OuterBeforeInner ==
    \A d \in Decls :
        declState[d].kindReached /\ vCtx[d] /= 0 => declState[d].ctxStartedFirst

ContextValidatedFirst(d) == vKind[d] /= "GenericTypeParam" /\ vCtx[d] /= 0

\* validateDecl is about to test whether the context of the declaration is
\* being type-checked, and it is.
AtContextGuard ==
    /\ vStack /= <<>>
    /\ vStack[Len(vStack)].fn = "validateDecl"
    /\ vStack[Len(vStack)].pc = "context"
    /\ ContextValidatedFirst(vStack[Len(vStack)].d)
    /\ declState[vCtx[vStack[Len(vStack)].d]].isBeingTypeChecked

\* The call returns and nothing but the record of the request has changed.
ReturnsUnvalidated ==
    /\ vStack' = SubSeq(vStack, 1, Len(vStack) - 1)
    /\ vDiags' = vDiags
    /\ declState' = [declState EXCEPT ![vStack[Len(vStack)].d].requested = TRUE]

\* C5: whenever the kind-specific validation of a declaration other than a
\* generic type parameter was reached and its context is a nominal type or an
\* extension, validateDecl or validateExtension had been invoked on that
\* context before; and when validateDecl finds the context being
\* type-checked it returns without touching the declaration.
C5_OuterBeforeInnerExceptGenericParams ==
    /\ [](\A d \in Decls :
            declState[d].kindReached /\ ContextValidatedFirst(d)
                => declState[d].ctxStartedFirst)
    /\ [][AtContextGuard => ReturnsUnvalidated]_vars

\* One member was validated after its context, and a request for another
\* nested declaration returned at the guard without validating it.
C5_Witness ==
    /\ Idle
    /\ \E d \in Decls :
          /\ ContextValidatedFirst(d)
          /\ declState[d].kindReached
          /\ declState[vCtx[d]].requested
    /\ \E e \in Decls :
          /\ ContextValidatedFirst(e)
          /\ declState[e].requested
          /\ ~declState[e].kindReached

\* The frames of the call stack that are inside the validation body of d:
\* past the hasType guard of a nominal type, protocol or enum element, past
\* the being-type-checked guard of a type alias, associated type or pattern
\* binding.
ActiveBodies(d) ==
    {n \in 1..Len(vStack) :
        /\ vStack[n].d = d
        /\ \/ /\ vStack[n].fn = "validateDecl"
              /\ vKind[d] \in NominalKinds
              /\ vStack[n].pc \in {"done", "protocol"}
           \/ /\ vStack[n].fn \in {"visitTypeAliasDecl", "visitAssociatedTypeDecl",
                                   "visitEnumElementDecl"}
              /\ vStack[n].pc /= "enter"
           \/ /\ vStack[n].fn = "validatePatternBindingDecl"
              /\ vStack[n].pc = "after"}

\* The number of steps within which every request returns.
StepBound == 30 * NumDecls

\* C6 as stated: the validation body of every declaration is entered at most
\* once.
C6_BodyEnteredAtMostOnce ==
    \A d \in Decls : declState[d].bodyEntries <= 1

\* C6: a request for a declaration whose validation body is active never
\* starts that body again, so at most one body of a declaration is active at
\* any time; the body of a declaration that is neither a type alias nor an
\* associated type is entered at most once altogether; and every request
\* returns within StepBound steps.
C6_NoReentrantRestart ==
    /\ \A d \in Decls : Cardinality(ActiveBodies(d)) <= 1
    /\ \A d \in Decls :
          vKind[d] \notin {"TypeAlias", "AssociatedType"} => declState[d].bodyEntries <= 1
    /\ vSteps <= StepBound

\* Two declarations that name each other were validated: the request that
\* came back round to the first was turned away with the circularity
\* diagnostic, and each body was entered once.
C6_Witness ==
    /\ Idle
    /\ \E d, e \in Decls :
          /\ d /= e
          /\ vRefs[d] = <<e>>
          /\ vRefs[e] = <<d>>
          /\ declState[d].bodyEntries = 1
          /\ declState[e].bodyEntries = 1
          /\ \E n \in 1..Len(vDiags) : vDiags[n].id = "circular_type_alias"

(***************************************************************************)
(* Claims about cycle recovery (SpecCirc).                                 *)
(***************************************************************************)
\* The step detected a cycle: checkCircularity was called on a declaration
\* that is in state Checking.
CycleDetected == circDiags' /= circDiags

\* The declaration at which the detected cycle closes: the call was made for
\* the next inherited declaration of the innermost activation record.
ClosingNode == Last(frames).inh[Last(frames).i]

\* C19: when a cycle is detected, the declaration at which it closes is marked
\* invalid, gets the error type and loses all its outgoing structural edges,
\* and no other declaration is marked invalid, retyped or loses an edge; a
\* step that detects no cycle marks nothing invalid and clears no edge.
C19_RecoveryMarksOnlyOffender ==
    [][/\ CycleDetected =>
            /\ circularity[ClosingNode] = "Checking"
            /\ declInvalid' = [declInvalid EXCEPT ![ClosingNode] = TRUE]
            /\ declErrorType' = [declErrorType EXCEPT ![ClosingNode] = TRUE]
            /\ inherited' = [inherited EXCEPT ![ClosingNode] = <<>>]
       /\ ~CycleDetected =>
            /\ declInvalid' = declInvalid
            /\ declErrorType' = declErrorType
            /\ \A n \in Nodes : inherited[n] /= <<>> => inherited'[n] = inherited[n]
      ]_vars

\* A cycle through two declarations was reported; the one at which it closed
\* is invalid and has no edge left, the other is valid and kept its edge.
C19_Witness ==
    \E k \in 1..Len(circDiags) :
        /\ circDiags[k].id = "circular"
        /\ Len(circDiags[k].cycle) >= 2
        /\ LET closing == circDiags[k].cycle[1]
               other == circDiags[k].cycle[2]
           IN  /\ declInvalid[closing] /\ declErrorType[closing]
               /\ inherited[closing] = <<>>
               /\ ~declInvalid[other] /\ ~declErrorType[other]
               /\ inherited[other] /= <<>>

\* The structural parents stored on a declaration.
StructuralParents(n) == Range(inherited[n]) \cap Nodes

\* The declarations reachable from the set S over at most k structural edges.
RECURSIVE ReachableWithin(_, _)
ReachableWithin(S, k) ==
    IF k = 0 THEN S
    ELSE ReachableWithin(S \cup UNION {StructuralParents(n) : n \in S}, k - 1)

ReachesItself(n) == n \in ReachableWithin(StructuralParents(n), NumNodes)

\* C20: once every declaration is Checked, no declaration reaches itself
\* through the structural edges that remain.
C20_RemainingEdgesAcyclic ==
    AllChecksDone => \A n \in Nodes : ~ReachesItself(n)

\* The written clauses contained a cycle, all checks are done and some edge
\* of the cycle's declarations is still there.
C20_Witness ==
    /\ AllChecksDone
    /\ SimpleCycles /= {}
    /\ \E n \in Nodes : declInvalid[n]
    /\ \E n \in Nodes : StructuralParents(n) /= {}

(***************************************************************************)
(* Claims about the superclass and raw type of a clause (SpecInherit).     *)
(***************************************************************************)
\* Entry k resolved to a type that competes for the superclass of a
\* declaration that may inherit a class, or for the raw type of an enum.
SlotCandidate(k) ==
    /\ Resolved(iClause, k)
    /\ iClause[k].cat /= "existential"
    /\ IF iDecl = "Enum" THEN TRUE
       ELSE canInheritClass(iDecl) /\ iClause[k].cat = "class"

SlotCandidates == {k \in 1..Len(iClause) : SlotCandidate(k)}

FirstCandidate == Min(SlotCandidates)

DiagsAt(k) == {n \in 1..Len(iDiags) : iDiags[n].at = k}

\* The first candidate is what is recorded, and it stays valid.
FirstCandidateRecorded ==
    /\ iDecl \in {"Class", "Enum"} =>
          iSuperclass = IF SlotCandidates = {} THEN NoType
                        ELSE iClause[FirstCandidate].canon
    /\ SlotCandidates /= {} => ~iEntryInvalid[FirstCandidate]

\* Candidate k is rejected with the one error that names the recorded type
\* and the type of k.
RejectedNamingBoth(k) ==
    /\ iEntryInvalid[k]
    /\ Cardinality(DiagsAt(k)) = 1
    /\ \A n \in DiagsAt(k) :
          iDiags[n] = InheritDiag(IF iDecl = "Enum" THEN "multiple_enum_raw_types"
                                  ELSE "multiple_inheritance",
                                  k, FirstCandidate,
                                  iClause[FirstCandidate].canon, iClause[k].canon)

\* Candidate k is rejected as a repetition of an earlier entry.
RejectedAsDuplicate(k) ==
    /\ iEntryInvalid[k]
    /\ Cardinality(DiagsAt(k)) = 1
    /\ \A n \in DiagsAt(k) :
          iDiags[n] = InheritDiag("duplicate_inheritance", k,
                                  FirstOccurrence(iClause, k), iClause[k].canon, "")

ClassEntry(k) ==
    /\ iDecl /= "Enum"
    /\ Resolved(iClause, k)
    /\ iClause[k].cat = "class"

\* Entry k is neither a class nor an existential type, in the clause of a
\* declaration that is not an enum.
OtherEntry(k) ==
    /\ iDecl /= "Enum"
    /\ Resolved(iClause, k)
    /\ iClause[k].cat = "other"

\* An earlier entry of the clause is a class type.
SuperclassSeenBefore(k) == \E j \in 1..(k - 1) : ClassEntry(j)

\* Some error reports entry k: one located at k, or one located at the
\* declaration that names the type of k.
DiagnosedAsError(k) ==
    \E n \in 1..Len(iDiags) :
        /\ iDiags[n].id /= "superclass_not_first"
        /\ \/ iDiags[n].at = k
           \/ iDiags[n].at = DeclLoc /\ iDiags[n].first = iClause[k].canon

\* Entry k is recorded as the superclass; nothing is reported at it but the
\* request to move it first, and that only when it is not the first entry.
RecordedAsSuperclass(k) ==
    /\ ~iEntryInvalid[k]
    /\ ~DiagnosedAsError(k)
    /\ iDecl = "Class" => iSuperclass = iClause[k].canon
    /\ {iDiags[n] : n \in DiagsAt(k)} =
          IF k > 1
          THEN {InheritDiag("superclass_not_first", k, 0, iClause[k].canon, "")}
          ELSE {}

EntriesClassified ==
    /\ \A k \in 1..Len(iClause) :
          ClassEntry(k) =>
              IF canInheritClass(iDecl) /\ ~SuperclassSeenBefore(k)
              THEN RecordedAsSuperclass(k)
              ELSE iEntryInvalid[k] /\ DiagnosedAsError(k)
    /\ \A k \in 1..Len(iClause) :
          OtherEntry(k) => iEntryInvalid[k] /\ DiagnosedAsError(k)
    /\ iDecl /= "Enum" /\ iSuperclass /= NoType =>
          \E k \in 1..Len(iClause) :
              ClassEntry(k) /\ ~iEntryInvalid[k] /\ iClause[k].canon = iSuperclass

\* C18 as stated: in the checked clause of a declaration that is not an enum,
\* a class-type entry is recorded as the superclass exactly when the
\* declaration may inherit a class and no earlier entry was a class, whatever
\* its position, which only adds the request to move it first; every other
\* class-type entry, and every entry that is neither a class nor an
\* existential type, is diagnosed, marked invalid and not recorded.
C18_EveryClauseClassified ==
    iChecked => EntriesClassified

\* C18 (amended): the statement holds for every clause except that of a
\* protocol extension, which is rejected as a whole with one
\* extension_protocol_inheritance diagnostic: none of its entries is
\* examined, marked invalid or recorded.
C18_ClassEntryClassification ==
    iChecked =>
        IF iDecl = "ProtocolExtension" /\ iClause /= <<>>
        THEN /\ \A k \in 1..Len(iClause) : ~iEntryInvalid[k] /\ ~DiagnosedAsError(k)
             /\ iSuperclass = NoType
        ELSE EntriesClassified

\* A class names a protocol, then a class, then a type that is neither: the
\* class is recorded although it is second, with the request to move it
\* first, and the third entry is rejected.
C18_Witness ==
    /\ iChecked
    /\ iDecl = "Class"
    /\ Len(iClause) = 3
    /\ iClause[1].name = "P1" /\ iClause[2].name = "C1" /\ iClause[3].name = "Int"
    /\ iSuperclass = "C1"
    /\ iEntryInvalid = <<FALSE, FALSE, TRUE>>
    /\ iDiags = <<InheritDiag("superclass_not_first", 2, 0, "C1", ""),
                  InheritDiag("inheritance_from_non_protocol_or_class", DeclLoc, 0,
                              "Int", "")>>

(***************************************************************************)
(* Claims about a protocol that names itself (SpecInherit).                *)
(***************************************************************************)
\* Some entry of the clause resolves to a type that contains the protocol
\* whose clause it is.
NamesSelf ==
    \E k \in 1..Len(iClause) :
        /\ Resolved(iClause, k)
        /\ iClause[k].cat = "existential"
        /\ SelfProtocol \in Range(iClause[k].protos)

\* The protocol itself is all the clause names, and nothing is implied.
OnlySelf ==
    /\ Len(iClause) = 1
    /\ iClause[1].canon = SelfProtocol
    /\ iImplicit = <<>>

CircularDiags(diags) ==
    {n \in 1..Len(diags) : diags[n].id = "circular_protocol_def"}

C17_InvalidHasErrorType ==
    \A i \in 1..Len(elts) : eltInvalid[i] => EltHasErrorType(i)

\* The loop has marked case i invalid because its raw value did not
\* type-check.
RawValueRejected(i) ==
    /\ i < eIdx
    /\ ~elts[i].invalid
    /\ ~elts[i].payload
    /\ rawValueExpr[i] /= NoLit
    /\ ~typeCheckedRaw[i]

\* C17, what the code guarantees: a case that is marked invalid carries the
\* error type unless it was marked by the raw-value pass, which marks exactly
\* the cases whose raw value did not type-check and leaves their type alone.
C17_InvalidHasErrorTypeExceptRawValues ==
    \A i \in 1..Len(elts) :
        /\ eltInvalid[i] => EltHasErrorType(i) \/ RawValueRejected(i)
        /\ RawValueRejected(i) => eltInvalid[i] /\ ~EltHasErrorType(i)

\* The raw-value pass is over and has marked a case invalid whose type is not
\* the error type.
C17_Witness ==
    /\ EnumDone
    /\ \E i \in 1..Len(elts) : eltInvalid[i] /\ ~EltHasErrorType(i)

(***************************************************************************)
(* Claims about override resolution (SpecOverride).                        *)
(***************************************************************************)
\* The step is the visit of the member by the declaration checker.
VisitStep == ~oVisited /\ oVisited'

\* The step is a call of checkOverrides on the member from outside.
ResolveStep == oResolves' = oResolves + 1

\* checkOverrides gets past its guards for the member.
Resolvable == ~oDecl.invalid /\ oDecl.hasSuperclass /\ oOverridden = 0

\* Superclass member b passes every test of the matching loop that does not
\* look at labels or types.
Eligible(b) ==
    /\ ~oBase[b].invalid
    /\ oBase[b].kind = oDecl.kind
    /\ oBase[b].classContext
    /\ oBase[b].static = oDecl.static

SameLabelCount(b) == Len(oBase[b].labels) = Len(oDecl.labels)

\* Some eligible superclass member differs from the member in the number of
\* argument labels, and no eligible member with the same number of labels
\* matches it by type or by selector.
OnlyLabelMismatches ==
    /\ \E b \in Bases : Eligible(b) /\ ~SameLabelCount(b)
    /\ \A b \in Bases :
          Eligible(b) /\ SameLabelCount(b) => oBase[b].ty = "none" /\ ~objCMatch(b)

\* The diagnostics the step adds.
AddedDiags == SubSeq(oDiags', Len(oDiags) + 1, Len(oDiags'))

\* C12: the override link of a member never points at a superclass member
\* with a different number of argument labels.  When such members are all
\* that could match a resolvable member with an override attribute, its visit
\* emits the one diagnostic that it does not override anything, invalidates
\* the attribute and records no link; a call of checkOverrides alone emits
\* nothing and records no link.
C12_LabelMismatchNeverOverrides ==
    /\ [](oOverridden /= 0 => SameLabelCount(oOverridden))
    /\ [][Resolvable /\ hasOverrideAttr(oAttr) /\ OnlyLabelMismatches =>
             /\ oOverridden' = 0
             /\ oAccessorLink' = oAccessorLink
             /\ VisitStep =>
                   /\ AddedDiags = <<ODiag(IF oDecl.kind = "Var"
                                           THEN "property_does_not_override"
                                           ELSE "method_does_not_override", "decl", 0)>>
                   /\ oAttr' = "invalid"
             /\ ResolveStep => AddedDiags = <<>> /\ oAttr' = oAttr /\ oError' = "false"
       ]_vars

\* f(a:) is marked override and the superclass has only f(a:b:) of the same
\* type: the method was found to override nothing.
C12_Witness ==
    /\ oVisited
    /\ oDecl = PlainFunc(<<"a">>, TRUE, "none")
    /\ \A b \in Bases : oBase[b] = BaseFunc(<<"a", "b">>, "equal", "none")
    /\ oOverridden = 0
    /\ oAttr = "invalid"
    /\ oDiags = <<ODiag("method_does_not_override", "decl", 0)>>

\* The lookup that settles the matches is the retry by base name.
Retried ==
    /\ ~oDecl.simple
    /\ Len(oDecl.labels) > 0
    /\ hasOverrideAttr(oAttr)
    /\ \A b \in Bases :
          Eligible(b) /\ oBase[b].labels = oDecl.labels =>
              oBase[b].ty = "none" /\ ~objCMatch(b)

\* Superclass member b is a candidate of the lookup that settles the
\* matches.
Candidate(b) ==
    /\ Eligible(b)
    /\ SameLabelCount(b)
    /\ Retried \/ oDecl.simple \/ oBase[b].labels = oDecl.labels
    /\ oBase[b].ty /= "none" \/ oDecl.kind = "Var"

ExactCandidate(b) ==
    /\ Candidate(b)
    /\ oBase[b].ty = "equal" \/ (oDecl.kind /= "Var" /\ objCMatch(b))

\* The candidates that remain after the tie-break.
Remaining ==
    IF \E b \in Bases : ExactCandidate(b)
    THEN {b \in Bases : ExactCandidate(b)}
    ELSE {b \in Bases : Candidate(b)}

\* The loop over the members ends with a diagnosed mismatch of Objective-C
\* methods.
SelectorMismatch ==
    \E b \in Bases :
        /\ Eligible(b)
        /\ SameLabelCount(b)
        /\ Retried \/ oBase[b].labels = oDecl.labels
        /\ oBase[b].ty = "none"
        /\ objCMatch(b)

RemainingNotes ==
    [k \in 1..Cardinality(Remaining) |->
        ODiag(IF Retried THEN "overridden_near_match_here" ELSE "overridden_here",
              "base", SetToSeq(Remaining)[k])]

\* C13: when more than one candidate remains after the tie-break, a visit
\* or a call of checkOverrides emits one ambiguity diagnostic at the member
\* and then one note at each remaining candidate, reports an error, and
\* records no override link.
C13_AmbiguousOverride ==
    [][/\ Resolvable
       /\ VisitStep \/ ResolveStep
       /\ ~SelectorMismatch
       /\ Cardinality(Remaining) > 1
       => /\ AddedDiags =
                <<ODiag(IF Retried THEN "override_multiple_decls_arg_mismatch"
                        ELSE "override_multiple_decls_base", "decl", 0)>>
                \o RemainingNotes
          /\ oError' = "true"
          /\ oOverridden' = 0
          /\ oAccessorLink' = oAccessorLink
          /\ oAttr' = oAttr
    ]_vars

\* Two superclass methods both match by subtype only: the ambiguity was
\* reported with a note at each and no link was recorded.
C13_Witness ==
    /\ oVisited
    /\ oResolves = 0
    /\ oDecl.kind = "Func"
    /\ \A b \in Bases : oBase[b] = BaseFunc(oDecl.labels, "subtype", "none")
    /\ oError = "true"
    /\ oOverridden = 0
    /\ oDiags = <<ODiag("override_multiple_decls_base", "decl", 0)>>
                \o [b \in Bases |-> ODiag("overridden_here", "base", b)]

\* C15: once the member has an override link, every later step leaves the
\* link pointing at the same superclass member; the same holds for the link
\* of each accessor.
C15_OverrideLinkWrittenOnce ==
    [][/\ oOverridden /= 0 => oOverridden' = oOverridden
       /\ \A k \in AccessorKinds :
             oAccessorLink[k] /= 0 => oAccessorLink'[k] = oAccessorLink[k]
    ]_vars

\* The member was linked, and it was visited and resolved again after that.
C15_Witness ==
    /\ oOverridden /= 0
    /\ oVisited
    /\ oResolves = MaxResolves
    /\ oError = "false"

\* C16: an accessor that has an override link is linked to the accessor of
\* the superclass property that its storage overrides, an accessor both
\* properties have; a setter or materializeForSet is linked only when the
\* base setter is accessible from the overriding context; and accessor links
\* are created only in the step that links the storage, never by the visit
\* of an accessor.
C16_AccessorLinksMirrorStorage ==
    /\ [](\A k \in AccessorKinds :
            oAccessorLink[k] /= 0 =>
                /\ oOverridden = oAccessorLink[k]
                /\ k \in oDecl.accessors \cap oBase[oOverridden].accessors
                /\ k \in {"setter", "materializeForSet"} =>
                      oBase[oOverridden].setterAccessible)
    /\ [][oAccessorLink' /= oAccessorLink =>
             /\ oOverridden = 0
             /\ oOverridden' /= 0
             /\ VisitStep \/ ResolveStep
       ]_vars

\* A computed property overrides a property whose setter is not accessible
\* from the subclass: the getter is linked, the setter is not.
C16_Witness ==
    /\ oDecl.kind = "Var"
    /\ oOverridden /= 0
    /\ "setter" \in oDecl.accessors \cap oBase[oOverridden].accessors
    /\ ~oBase[oOverridden].setterAccessible
    /\ oAccessorLink["getter"] = oOverridden
    /\ oAccessorLink["setter"] = 0
    /\ oAccessorLink["materializeForSet"] = 0

(***************************************************************************)
(* Claims about the reported cycle segment.                                *)
(***************************************************************************)
\* The diagnostics emitted by the step.
AddedCircDiags == SubSeq(circDiags', Len(circDiags) + 1, Len(circDiags'))

\* The position on the current path of the node found in state Checking.
RepeatedAt ==
    CHOOSE s \in 1..Len(path) :
        /\ path[s] = ClosingNode
        /\ \A j \in (s + 1)..Len(path) : path[j] /= ClosingNode

\* The suffix of the current path that starts at the repeated node.
PathSuffix == SubSeq(path, RepeatedAt, Len(path))

\* The declarations named by the diagnostics of the step.
ReportedNodes ==
    Range(AddedCircDiags[1].cycle) \cup {AddedCircDiags[k].at : k \in 1..Len(AddedCircDiags)}

\* C21: when a node in state Checking is met again, the reported cycle is the
\* suffix of the current path that starts at that node and no node of the
\* prefix before it is part of the report; the direct self-reference
\* diagnostic is used exactly when the suffix has length 1, and otherwise
\* exactly one note is attached for each node of the suffix other than the
\* repeated node, and no other note.
C21_ReportedCycleIsPathSuffix ==
    [][CycleDetected =>
         /\ \E s \in 1..Len(path) : path[s] = ClosingNode
         /\ AddedCircDiags[1].id = "circular"
         /\ AddedCircDiags[1].cycle = PathSuffix
         /\ \A j \in 1..(RepeatedAt - 1) : path[j] \notin ReportedNodes
         /\ AddedCircDiags[1].direct <=> Len(PathSuffix) = 1
         /\ Len(PathSuffix) = 1 => Len(AddedCircDiags) = 1
         /\ Len(PathSuffix) > 1 =>
              /\ Len(AddedCircDiags) = Len(PathSuffix)
              /\ \A k \in 2..Len(AddedCircDiags) : AddedCircDiags[k].id = "here"
              /\ \A j \in 2..Len(PathSuffix) :
                    Cardinality({k \in 2..Len(AddedCircDiags) :
                                    AddedCircDiags[k].at = PathSuffix[j]}) = 1
      ]_vars

\* A cycle through two declarations was just reported from a path of three:
\* the first declaration of the path led into the cycle and is not reported.
C21_Witness ==
    /\ Len(path) = 3
    /\ Len(circDiags) = 2
    /\ circDiags[1].id = "circular"
    /\ circDiags[1].cycle = SubSeq(path, 2, 3)
    /\ circDiags[2].id = "here"
    /\ circDiags[2].at = path[3]
    /\ circularity[path[1]] = "Checking"

(***************************************************************************)
(* Claims about the backward scan for the start of the cycle.              *)
(***************************************************************************)
\* The declaration the next call of checkCircularity is made for.
NextCallee == Last(frames).inh[Last(frames).i]

CallPending == frames /= <<>> /\ Last(frames).i \in 1..Len(Last(frames).inh)

Unvalued == {i \in Cases : elts[i].lit = NoLit}

UnvaluedEntered == {i \in Unvalued : Entered(i)}

\* The loop has reached case i and dealt with it.
DealtWith(i) == eIdx > i \/ (eIdx = i /\ eStopped)

CannotSynthesize(i) == EnumDiag("enum_non_integer_convertible_raw_type_no_value", i)

\* Nothing was done to the cases after case i.
LaterCasesUntouched(i) ==
    \A j \in Cases :
        j > i =>
           /\ rawValueExpr[j] = elts[j].lit
           /\ ~typeCheckedRaw[j]
           /\ eltInvalid[j] = elts[j].invalid
           /\ \A k \in 1..Len(uniqueRawValues) : uniqueRawValues[k].sourceElt /= j
           /\ \A d \in 1..Len(enumDiags) : enumDiags[d].at /= j

\* The pass stopped at case i with the cannot-synthesize diagnostic.
StoppedAt(i) ==
    /\ eStopped
    /\ eIdx = i
    /\ Cardinality({d \in 1..Len(enumDiags) : enumDiags[d] = CannotSynthesize(i)}) = 1
    /\ enumDiags[Len(enumDiags)] = CannotSynthesize(i)
    /\ rawValueExpr[i] = NoLit
    /\ LaterCasesUntouched(i)

\* C27 as stated: with automatic value kind None, the first case written
\* without an explicit raw value gets the cannot-synthesize diagnostic and the
\* pass stops there; no later case is type-checked, given a value, entered
\* into the uniqueness map or diagnosed.
C27_FirstUnvaluedCaseStopsPass ==
    (valueKind = "None" /\ Unvalued /= {} /\ DealtWith(Min(Unvalued)))
        => StoppedAt(Min(Unvalued))

\* C27: with automatic value kind None, the first case without an explicit
\* raw value that is neither invalid nor a payload case gets the
\* cannot-synthesize diagnostic and the pass stops there; no later case is
\* type-checked, given a value, entered into the uniqueness map or diagnosed.
\* Invalid cases and payload cases before it are skipped and do not stop the
\* pass.
C27_FirstExaminedUnvaluedCaseStopsPass ==
    /\ (valueKind = "None" /\ UnvaluedEntered /= {} /\ DealtWith(Min(UnvaluedEntered)))
          => StoppedAt(Min(UnvaluedEntered))
    /\ (valueKind = "None" /\ eStopped) => eIdx \in UnvaluedEntered

\* The pass stopped at the first case; the two later cases were written with
\* the same raw value, both type-check, and no duplicate was reported.
C27_Witness ==
    /\ valueKind = "None"
    /\ Len(elts) >= 3
    /\ StoppedAt(1)
    /\ elts[2].lit = elts[3].lit
    /\ elts[2].lit /= NoLit
    /\ elts[2].tc /\ elts[3].tc
    /\ Entered(2) /\ Entered(3)

(***************************************************************************)
(* Claims about floating and integer raw values in one enumeration.        *)
(***************************************************************************)
\* The value of the double with the 16 most significant bits top is exactly
\* the integer v.  A normal double is (-1)^sign * (16 + fraction) *
\* 2^(exponent - 1027); +0.0 is the integer 0, and -0.0, subnormals,
\* infinities and NaNs are no integer.
FloatIsInteger(top, v) ==
    LET sign == top \div 32768
        exponent == (top \div 16) % 2048
        sig == 16 + (top % 16)
        mag == IF v < 0 THEN -v ELSE v
    IN  IF exponent = 0 THEN top = 0 /\ v = 0
        ELSE IF exponent = 2047 THEN FALSE
        ELSE /\ (v < 0) = (sign = 1)
             /\ IF exponent >= 1027
                THEN exponent - 1027 <= 20 /\ mag = sig * Pow2(exponent - 1027)
                ELSE 1027 - exponent <= 20 /\ mag * Pow2(1027 - exponent) = sig

\* Case i holds an integer raw value and case k a floating one, or the other
\* way round, and both reached the uniqueness check.
MixedPair(i, k) ==
    \/ IntChecked(i) /\ FloatChecked(k)
    \/ FloatChecked(i) /\ IntChecked(k)

\* The two raw values of a mixed pair are numerically the same integer.
SameInteger(i, k) ==
    LET int == IF rawValueExpr[i].kind = "Int" THEN i ELSE k
        flt == IF rawValueExpr[i].kind = "Int" THEN k ELSE i
    IN  FloatIsInteger(rawValueExpr[flt].digits, IntValue(rawValueExpr[int]))

\* C28: a floating raw value that is exactly an integer collides with an
\* integer raw value of the same numeric value in the same enumeration (the
\* later case gets one not-unique diagnostic that points back to a case
\* holding that number); a floating raw value and an integer raw value that
\* are not the same integer never collide with each other.
C28_FloatKeyedAsInteger ==
    \A i, k \in Cases :
        (i < k /\ MixedPair(i, k)) =>
            IF SameInteger(i, k)
            THEN /\ Cardinality(NotUniqueAt(k)) = 1
                 /\ \E f \in ReportedAgainst(k) :
                       /\ f <= i
                       /\ isEqual(RawValueKey(rawValueExpr[f]), RawValueKey(rawValueExpr[i]))
            ELSE i \notin ReportedAgainst(k)

\* A synthesized 0 followed by an explicit 0.0 and an explicit 1.5: the 0.0
\* was reported against the first case, the 1.5 was not reported.
C28_Witness ==
    /\ valueKind = "Integer"
    /\ EnumDone
    /\ Len(elts) >= 3
    /\ elts[1].lit = NoLit /\ Checked(1) /\ rawValueExpr[1] = IntLit(0)
    /\ elts[2].lit = FloatLit(0) /\ Checked(2)
    /\ elts[3].lit = FloatLit(16376) /\ Checked(3)
    /\ ReportedAgainst(2) = {1}
    /\ NotUniqueAt(3) = {}

(***************************************************************************)
(* Claims about collisions of automatic raw values.                        *)
(***************************************************************************)
\* Case j was written with a raw value and the loop examined it.
ExplicitEntered(j) == Entered(j) /\ elts[j].lit /= NoLit

\* A not-unique diagnostic was emitted at case k.
CollisionAt(k) == NotUniqueAt(k) /= {}

\* The value of lastExplicitValueElt when the loop checked case k for
\* uniqueness: the last examined case at or before k written with a raw value.
LastExplicitAt(k) ==
    LET explicit == {j \in 1..k : ExplicitEntered(j)}
    IN  IF explicit = {} THEN 0 ELSE CHOOSE j \in explicit : \A h \in explicit : h <= j

\* C30: whenever a case's key is found in the uniqueness map, some case at or
\* before it had an explicit raw value, so lastExplicitValueElt is not null
\* at the collision; raw values derived automatically from the start of the
\* enumeration (0, 1, 2, ... or the names of the cases) have pairwise
\* different keys.
C30_CollisionInvolvesExplicitValue ==
    /\ \A k \in Cases : CollisionAt(k) => LastExplicitAt(k) /= 0
    /\ \A k \in Cases : (Processed(k) /\ CollisionAt(k)) => lastExplicitValueElt /= 0
    /\ \A i, k \in Cases :
          (i < k /\ Checked(i) /\ Checked(k) /\ LastExplicitAt(k) = 0)
             => ~isEqual(RawValueKey(rawValueExpr[i]), RawValueKey(rawValueExpr[k]))

\* Three cases named after their position were given their names as raw
\* values, the first of them explicitly written "c2": the second case
\* collided with it, and the third, whose name repeats no other, did not.
C30_Witness ==
    /\ valueKind = "String"
    /\ EnumDone
    /\ Len(elts) >= 3
    /\ elts[1].lit = StrLit("c2") /\ Checked(1)
    /\ elts[2].lit = NoLit /\ Checked(2)
    /\ elts[3].lit = NoLit /\ Checked(3)
    /\ CollisionAt(2)
    /\ ~CollisionAt(3)
    /\ lastExplicitValueElt = 1

(***************************************************************************)
(* Claims about the choice among several candidates.                       *)
(***************************************************************************)
\* The step records the override link of the member.
LinkStep == oOverridden = 0 /\ oOverridden' /= 0

\* recordOverride rejects a link between a member of an extension and a
\* superclass member that is not an Objective-C member.
ExtensionMismatch(b) ==
    (oBase[b].inExtension \/ oDecl.inExtension) /\ ~isObjC(oBase[b])

\* C22: when some candidate is an exact match, the non-exact candidates are
\* discarded before the target is chosen, and the member is linked only when
\* exactly one candidate remains: the step that records the link records the
\* one remaining candidate, and that candidate is an exact match whenever an
\* exact match exists.  A method whose one remaining candidate is not in
\* conflict with an extension is linked to it.
C22_ExactMatchesWin ==
    [][/\ LinkStep =>
            /\ Resolvable
            /\ Remaining = {oOverridden'}
            /\ (\E b \in Bases : ExactCandidate(b)) => ExactCandidate(oOverridden')
       /\ \A b \in Bases :
            (/\ Resolvable
             /\ VisitStep \/ ResolveStep
             /\ oDecl.kind = "Func"
             /\ ~SelectorMismatch
             /\ Remaining = {b}
             /\ ~ExtensionMismatch(b)) => oOverridden' = b
    ]_vars

\* The first superclass method matches by subtype only, the second has the
\* type of the method: the method was linked to the second.
C22_Witness ==
    /\ oDecl.kind = "Func"
    /\ NumBase >= 2
    /\ oBase[1] = BaseFunc(oDecl.labels, "subtype", "none")
    /\ oBase[2] = BaseFunc(oDecl.labels, "equal", "none")
    /\ oOverridden = 2
    /\ oError = "false"

(***************************************************************************)
(* Claims about the second lookup by base name.                            *)
(***************************************************************************)
\* The lookup by the full name of the member finds superclass member b.
FoundByFullName(b) ==
    oDecl.simple \/ (~oBase[b].simple /\ oBase[b].labels = oDecl.labels)

\* The lookup by full name ends with no match and without a diagnosed
\* mismatch of Objective-C methods.
NoFullNameSurvivor ==
    \A b \in Bases :
        (Eligible(b) /\ SameLabelCount(b) /\ FoundByFullName(b)) =>
            /\ oDecl.kind /= "Var"
            /\ oBase[b].ty = "none"
            /\ ~objCMatch(b)

\* The full name of the member has argument labels.
HasArgumentLabels == ~oDecl.simple /\ Len(oDecl.labels) > 0

\* A visit or a call of checkOverrides that gets past the guards.
ResolveCall == Resolvable /\ (VisitStep \/ ResolveStep)

\* The second lookup ends with no match either.
SecondLookupEmpty ==
    /\ oLookups' = 2
    /\ \A b \in Bases : ~Candidate(b)
    /\ ~SelectorMismatch

\* The end of a call whose second lookup was empty: no link and no error;
\* a call of checkOverrides from outside emits nothing.
EndsWithoutLink ==
    /\ oOverridden' = 0
    /\ oError' = "false"
    /\ ResolveStep => AddedDiags = <<>>

\* C23 as stated: when the lookup by full name leaves no candidate and the
\* full name has argument labels, the lookup is repeated by base name; no
\* call looks more than twice, and a second empty result ends the call with
\* no link and no error.
C23_RetryWheneverLabelled ==
    /\ [](oLookups \in 0..2)
    /\ [][ResolveCall =>
            /\ (NoFullNameSurvivor /\ HasArgumentLabels) => oLookups' = 2
            /\ SecondLookupEmpty => EndsWithoutLink
       ]_vars

\* C23: when the lookup by full name leaves no candidate, the full name has
\* argument labels and the member carries an override attribute, the lookup
\* is repeated by base name, and in no other case; no call looks more than
\* twice, and a second empty result ends the call with no link and no error.
C23_RetryOnceByBaseName ==
    /\ [](oLookups \in 0..2)
    /\ [][ResolveCall =>
            /\ oLookups' = IF /\ NoFullNameSurvivor
                              /\ HasArgumentLabels
                              /\ hasOverrideAttr(oAttr)
                           THEN 2 ELSE 1
            /\ SecondLookupEmpty => EndsWithoutLink
       ]_vars

\* f(a:) is marked override and the superclass has f(b:) of the same type:
\* the second lookup found it, and the method was linked to it with a
\* diagnostic about the label.
C23_Witness ==
    /\ oDecl = PlainFunc(<<"a">>, TRUE, "none")
    /\ \E b \in Bases :
          /\ oBase[b] = BaseFunc(<<"b">>, "equal", "none")
          /\ oOverridden = b
    /\ oLookups = 2
    /\ oDiags = <<ODiag("override_argument_name_mismatch", "decl", 0)>>

(***************************************************************************)
(* Claims about covariant overrides of storage.                            *)
(***************************************************************************)
\* The member is a property or a subscript.
IsStorageDecl == oDecl.kind \in {"Var", "Subscript"}

\* The step adds diagnostics that end with the given diagnostic at the
\* member and the given note at superclass member b.
RejectedWith(id, note, b) ==
    /\ Len(AddedDiags) >= 2
    /\ SubSeq(AddedDiags, Len(AddedDiags) - 1, Len(AddedDiags)) =
          <<ODiag(id, "decl", 0), ODiag(note, "base", b)>>
    /\ oError' = "true"
    /\ oOverridden' = 0
    /\ oAccessorLink' = oAccessorLink

\* The step emits no mutable-covariant diagnostic.
NoCovariantDiag ==
    \A k \in 1..Len(AddedDiags) :
        AddedDiags[k].id \notin {"override_mutable_covariant_property",
                                 "override_mutable_covariant_subscript"}

\* Superclass member b is the one remaining candidate of a resolution of a
\* property or subscript, and its type is not the type of the member.
UnequalSingleMatch(b) ==
    /\ ResolveCall
    /\ IsStorageDecl
    /\ ~SelectorMismatch
    /\ Remaining = {b}
    /\ oBase[b].ty /= "equal"

\* The property whose type cannot override the type of its one candidate is
\* rejected with the type mismatch diagnostic.
PropertyTypeMismatchRejected(b) ==
    UnequalSingleMatch(b) /\ oDecl.kind = "Var" /\ oBase[b].ty = "none" =>
        RejectedWith("override_property_type_mismatch", "property_override_here", b)

\* The mutable-covariant rejection of the member against candidate b.
CovariantRejected(b) ==
    IF oDecl.kind = "Subscript"
    THEN RejectedWith("override_mutable_covariant_subscript", "subscript_override_here", b)
    ELSE RejectedWith("override_mutable_covariant_property", "property_override_here", b)

\* C24 as stated: when the type of the one remaining candidate is not equal
\* to the type of the property or subscript and the candidate has a setter,
\* the resolution emits the mutable-covariant diagnostic, reports an error
\* and records no link; a property whose type cannot override the type of
\* the candidate is rejected without a link as well.
C24_MutableCovarianceRejected ==
    [][\A b \in Bases :
          /\ UnequalSingleMatch(b) /\ oBase[b].ty /= "none" /\ oBase[b].hasSetter =>
                CovariantRejected(b)
          /\ PropertyTypeMismatchRejected(b)
    ]_vars

\* C24: when the type of the one remaining candidate is not equal to the
\* type of the property or subscript and the candidate has a setter, the
\* resolution emits the mutable-covariant diagnostic, reports an error and
\* records no link, except for a property whose type differs from the type
\* of the candidate only in Optional against ImplicitlyUnwrappedOptional:
\* that difference is silent, no mutable-covariant diagnostic is emitted and
\* the property is linked unless a later check reports an error.  A
\* property whose type cannot override the type of the candidate is rejected
\* without a link.
C24_MutableCovarianceRejectedUnlessSilent ==
    [][\A b \in Bases :
          /\ (/\ UnequalSingleMatch(b) /\ oBase[b].ty /= "none" /\ oBase[b].hasSetter
              /\ ~(oDecl.kind = "Var" /\ oBase[b].ty = "iuo")) =>
                CovariantRejected(b)
          /\ (/\ UnequalSingleMatch(b) /\ oBase[b].hasSetter
              /\ oDecl.kind = "Var" /\ oBase[b].ty = "iuo") =>
                /\ NoCovariantDiag
                /\ oError' = "false" => oOverridden' = b
          /\ PropertyTypeMismatchRejected(b)
    ]_vars

\* A subscript narrows the type of a superclass subscript that has a
\* setter: it was rejected with the mutable-covariant diagnostic.
C24_Witness ==
    /\ oVisited
    /\ oResolves = 0
    /\ oDecl.kind = "Subscript"
    /\ oBase[1] = BaseSubscript("subtype", "settable")
    /\ oDiags = <<ODiag("override_mutable_covariant_subscript", "decl", 0),
                  ODiag("subscript_override_here", "base", 1)>>
    /\ oError = "true"
    /\ oOverridden = 0

(***************************************************************************)
(* Claims about the explicit override marker.                              *)
(***************************************************************************)
\* The superclass member is an initializer that is neither designated nor
\* required.
NonRequiredConvenienceInit(base) ==
    base.kind = "Constructor" /\ ~base.designated /\ ~base.required

\* The superclass member is an initializer that is not designated or is
\* required.
ConvenienceOrRequiredInit(base) ==
    base.kind = "Constructor" /\ (~base.designated \/ base.required)

\* The step emits the missing-override diagnostic at the member followed by
\* its note at superclass member b.
MissingOverrideDiagnosed(b) ==
    \E k \in 1..(Len(AddedDiags) - 1) :
        /\ AddedDiags[k] = ODiag("missing_override", "decl", 0)
        /\ AddedDiags[k + 1] = ODiag("overridden_here", "base", b)

\* The step emits no missing-override diagnostic.
NoMissingOverrideDiag ==
    \A k \in 1..Len(AddedDiags) : AddedDiags[k].id /= "missing_override"

\* C26 as stated: the step that links a member without an override
\* attribute emits the missing-override diagnostic and adds the attribute,
\* in every case except when the overridden member is an initializer that
\* is neither designated nor required; hence a member linked to anything
\* other than such an initializer has an override attribute.
C26_MarkerUnlessNonRequiredConvenience ==
    /\ [][LinkStep /\ ~hasOverrideAttr(oAttr) =>
            IF NonRequiredConvenienceInit(oBase[oOverridden'])
            THEN NoMissingOverrideDiag /\ oAttr' = oAttr
            ELSE MissingOverrideDiagnosed(oOverridden') /\ hasOverrideAttr(oAttr')
       ]_vars
    /\ [](oOverridden /= 0 /\ ~NonRequiredConvenienceInit(oBase[oOverridden]) =>
            hasOverrideAttr(oAttr))

\* C26: the step that links a member without an override attribute emits
\* the missing-override diagnostic and adds the attribute, in every case
\* except when the overridden member is an initializer that is not
\* designated or is required: then the link is recorded with no
\* missing-override diagnostic and no attribute.  Hence a member linked to
\* anything other than such an initializer has an override attribute.
C26_MarkerUnlessConvenienceOrRequired ==
    /\ [][LinkStep /\ ~hasOverrideAttr(oAttr) =>
            IF ConvenienceOrRequiredInit(oBase[oOverridden'])
            THEN NoMissingOverrideDiag /\ oAttr' = oAttr
            ELSE MissingOverrideDiagnosed(oOverridden') /\ hasOverrideAttr(oAttr')
       ]_vars
    /\ [](oOverridden /= 0 /\ ~ConvenienceOrRequiredInit(oBase[oOverridden]) =>
            hasOverrideAttr(oAttr))

\* An initializer without an override attribute overrides a designated
\* initializer that is not required: the missing attribute was diagnosed
\* and added, and the link was recorded.
C26_Witness ==
    /\ oVisited
    /\ oResolves = 0
    /\ oDecl = PlainCtor(FALSE, FALSE, FALSE)
    /\ oBase[1] = BaseCtor("equal", FALSE, TRUE, FALSE)
    /\ oOverridden = 1
    /\ oAttr = "valid"
    /\ oError = "false"
    /\ oDiags = <<ODiag("missing_override", "decl", 0),
                  ODiag("overridden_here", "base", 1)>>

(***************************************************************************)
(* Claims about the failability of overriding initializers.                *)
(***************************************************************************)
\* The visited member is an initializer with an override link.
LinkedInitializer == oVisited /\ oDecl.kind = "Constructor" /\ oOverridden /= 0

\* The failability mismatch was diagnosed at the member, with its note at
\* the overridden initializer.
FailabilityDiagnosed ==
    \E k \in 1..(Len(oDiags) - 1) :
        /\ oDiags[k] = ODiag("failable_initializer_override", "decl", 0)
        /\ oDiags[k + 1] = ODiag("nonfailable_initializer_override_here", "base", oOverridden)

\* C25 as stated: a non-failable initializer that overrides a failable
\* initializer is diagnosed as an incompatible override.
C25_RemovingFailabilityDiagnosed ==
    LinkedInitializer /\ ~oDecl.failable /\ oBase[oOverridden].failable =>
        FailabilityDiagnosed

\* C25: a failable initializer that overrides a non-failable initializer is
\* diagnosed as an incompatible override, by the visit of the initializer,
\* and the link stays; no other override of an initializer gets the
\* diagnostic, so a non-failable initializer that overrides a failable one
\* is accepted without it.
C25_AddingFailabilityDiagnosed ==
    /\ [](LinkedInitializer =>
            (FailabilityDiagnosed <=> oDecl.failable /\ ~oBase[oOverridden].failable))
    /\ [][(\E k \in 1..Len(AddedDiags) :
              AddedDiags[k].id = "failable_initializer_override") => VisitStep
       ]_vars

\* A failable initializer marked override overrides a designated
\* initializer that is not failable: the visit linked it and diagnosed the
\* failability.
C25_Witness ==
    /\ oVisited
    /\ oResolves = 0
    /\ oDecl = PlainCtor(TRUE, TRUE, FALSE)
    /\ oBase[1] = BaseCtor("equal", FALSE, TRUE, FALSE)
    /\ oOverridden = 1
    /\ oDiags = <<ODiag("failable_initializer_override", "decl", 0),
                  ODiag("nonfailable_initializer_override_here", "base", 1)>>

====
